---- MODULE Spec2Model ----
(***************************************************************************)
(* A model of the VIRGIL thread pool (arcana-lab/virgil):                  *)
(*   - ThreadPoolForCMultiQueues: one ThreadSafeMutexQueue per worker,     *)
(*     reusable ThreadCTask records, the worker loop and the destructor;   *)
(*   - Scheduler: find_best_pu and submitAndDetach over the Architecture;  *)
(*   - ThreadSafeSpinLockQueue used on its own by producers and consumers. *)
(* Vectors of the program are functions over 0..n-1, as the code indexes   *)
(* them.  Variables named g_* are history variables: they record what      *)
(* happened and no action reads them to decide what to do.                 *)
(***************************************************************************)
EXTENDS Integers, Sequences, FiniteSets, TLC

(***************************************************************************)
(* Bounds of the model.                                                    *)
(***************************************************************************)
\* numThreads given to the pool constructor
NumThreads == 2
\* total number of submissions in one run
MaxTasks == 3
\* largest task weight handed to the scheduler
MaxWeight == 2
\* stand-in for std::numeric_limits<size_t>::max() (the machine's is 2^64-1)
SIZE_MAX == 1073741823
\* threads that call the queue used on its own, and values they push
NumCallers == 3
MaxPushes == 3
\* tasks submitted to the ThreadPoolForC
MaxForCTasks == 4

(***************************************************************************)
(* Program constants.                                                      *)
(***************************************************************************)
\* Scheduler::submitAndDetach multiplies the weight by 1000
GRANULARITY == 1000
\* Architecture::Architecture
max_pu_strength == 100000
\* the PUs of Architecture::Architecture in get_pus() order: id and strength
PU_ID == <<24, 26>>
PU_POWER == <<100000, 70000>>
\* find_best_pu's static round robin
FIRST_CPU == 20
LAST_CPU == 28

\* the caller threads: the tests submit from main alone; the scheduler is
\* also exercised by two threads
MainThread == {1}
TwoCallers == {1, 2}
Tasks == 1..MaxTasks
Weights == 0..MaxWeight
NoTask == 0

VARIABLES
  \* ThreadPoolInterface
  m_done, extendible, threadAvailability, workers,
  \* ThreadPoolForCMultiQueues / ThreadPoolForC
  cWorkQueues, cWorkQueuesLock, memoryPool, nextLocality,
  \* the threads of the callers, their locks, the destructor, abnormal end
  submitters, locks, dtor, aborted,
  \* Scheduler
  history_, trueHistory, last_cpu,
  \* history variables
  g_pushed, g_executed, g_leases, g_releases,
  \* number of submissions started so far; submission n carries task n
  submitted,
  \* the weights given to the scheduler, in the order of the calls
  g_weights,
  \* a ThreadSafeSpinLockQueue used on its own (tests/queue): the queue with
  \* its spinLock, and the threads that call it
  spinQueue,
  callers,
  \* the values pushed, in the order of the pushes, and the deliveries
  g_spin_pushed,
  g_spin_popped,
  \* a ThreadPoolForC: its memory pool, queue and done flag; the threads that
  \* submit to it; its workers
  poolForC,
  forCSubmitters,
  forCWorkers,
  \* for each record of the memory pool the tasks that hold it, the number of
  \* tasks submitted, and the largest number of tasks outstanding at once
  g_forC,
  \* a ThreadSafeMutexQueue or ThreadSafeMutexQueueSleep used on its own: the
  \* queue with its kind and its m_mutex, and the threads that call it
  mutexQueue,
  mutexCallers,
  \* the values pushed and delivered, in order, and the number of values made
  g_mutex,
  \* the life of a pool object of class ThreadPool or ThreadPoolForC: its
  \* shutdown callbacks, done flag, threads and availability flags, what is
  \* left to do of the running destroy() or destructor, and the callbacks
  \* registered and run so far
  lifecycle,
  \* the locks of the two pools: for each lock the thread that holds it, and
  \* for each thread its position in the lock operations of its code and
  \* whether it sleeps on a condition variable
  lockOwner,
  lockThreads,
  \* the caches of a topology: the lower cache and the higher caches of each,
  \* and the latest call of associate_lower_cache with the lower cache and
  \* the higher caches it found
  lower_cache_,
  higher_caches_,
  g_lastCall

poolVars == <<m_done, extendible, threadAvailability, workers, cWorkQueues,
              cWorkQueuesLock, memoryPool, nextLocality, locks, dtor,
              g_pushed, g_executed, g_leases, g_releases>>
schedVars == <<history_, trueHistory, last_cpu, g_weights>>
queueVars == <<spinQueue, callers, g_spin_pushed, g_spin_popped>>
forCVars == <<poolForC, forCSubmitters, forCWorkers, g_forC>>
mutexVars == <<mutexQueue, mutexCallers, g_mutex>>
lockVars == <<lockOwner, lockThreads>>
cacheVars == <<lower_cache_, higher_caches_, g_lastCall>>
extraVars == <<lockVars, cacheVars>>
vars == <<poolVars, submitters, aborted, schedVars, submitted, queueVars, forCVars,
          mutexVars, lifecycle, extraVars>>

(***************************************************************************)
(* ThreadSafeQueue / ThreadSafeMutexQueue: a queue is its std::queue and   *)
(* its validity flag.  Every operation runs under the queue's mutex, so it *)
(* is one step; a waitPop blocked on empty_condition is a step that is not *)
(* enabled until the wait's predicate holds.                               *)
(***************************************************************************)
NewQueue == [m_queue |-> <<>>, m_valid |-> TRUE]

\* variant: the value is put at the front of the queue
internal_push_front(q, value) == [q EXCEPT !.m_queue = <<value>> \o @]
internal_push(q, value) == [q EXCEPT !.m_queue = Append(@, value)]

front(q) == Head(q.m_queue)

\* variant: the front value is read and left in the queue
internal_pop_keep(q) == q
internal_pop(q) == [q EXCEPT !.m_queue = Tail(@)]

\* the predicate of empty_condition.wait in waitPop
\* variant: a push does not wake the waiting thread
waitPop_ready_invalid(q) == ~q.m_valid
waitPop_ready(q) == q.m_queue # <<>> \/ ~q.m_valid

\* waitPop's result once it can return: false iff the queue is invalid
waitPop_result(q) == q.m_valid

\* variant: the queue stays valid
invalidate_not(q) == q
\* variant: an invalidate of an invalid queue makes it valid again
invalidate_toggle(q) == [q EXCEPT !.m_valid = ~@]
invalidate(q) == IF ~q.m_valid THEN q ELSE [q EXCEPT !.m_valid = FALSE]

size(q) == Len(q.m_queue)

(***************************************************************************)
(* ThreadCTask records and the pool's memory pool.  memoryPool[i] has ID   *)
(* i-1.  args is the task's argument: the task (and its lock) it stands    *)
(* for.                                                                    *)
(***************************************************************************)
\* ThreadCTask::ThreadCTask(ID): a new record is born not available
NewRecord == [available |-> FALSE, args |-> NoTask]

\* ThreadCTask::getAvailability on record i: true iff it was available
getAvailability(pool, i) == pool[i].available

setAvailable(pool, i) == [pool EXCEPT ![i].available = TRUE]

\* variant: the record keeps the function and argument of its previous use
setFunction_not(pool, i, a) == pool

\* m_func = f; args = args
setFunction(pool, i, a) == [pool EXCEPT ![i].args = a]

\* getTask: the record handed out, a free one if any, else a new one
getTask_index(pool) ==
  IF \E i \in DOMAIN pool : getAvailability(pool, i)
  THEN CHOOSE i \in DOMAIN pool :
         /\ getAvailability(pool, i)
         /\ \A k \in DOMAIN pool : getAvailability(pool, k) => i <= k
  ELSE Len(pool) + 1

getTask_pool(pool) ==
  LET i == getTask_index(pool)
  IN  IF i \in DOMAIN pool THEN [pool EXCEPT ![i].available = FALSE]
      ELSE Append(pool, NewRecord)

(***************************************************************************)
(* ThreadPoolInterface                                                     *)
(***************************************************************************)
Workers == DOMAIN workers

Submitters == DOMAIN submitters

NewWorker(thread) == [pc |-> "start", thread |-> thread, pTask |-> 0]

\* newThreads(n): n flags set to true, n threads running the trampoline with
\* thread = 0..n-1
newThreads_workers(ws, n) == ws \o [i \in 1..n |-> NewWorker(i - 1)]

newThreads_flags(fl, n) == fl \o [i \in 1..n |-> TRUE]

numberOfIdleThreads == Cardinality({w \in Workers : threadAvailability[w]})

NumQueues == Cardinality(DOMAIN cWorkQueues)

RECURSIVE SumSizes(_, _)
SumSizes(qs, n) == IF n = 0 THEN 0 ELSE size(qs[n - 1]) + SumSizes(qs, n - 1)

numberOfTasksWaitingToBeProcessed == SumSizes(cWorkQueues, NumQueues)

\* li % cWorkQueues.size()
queueID(li) == li % NumQueues

\* variant: the pool also expands when as many threads are idle as tasks
\* are waiting
expandPool_spawns_eager ==
  IF extendible /\ numberOfIdleThreads <= numberOfTasksWaitingToBeProcessed
  THEN 2 ELSE 0

\* variant: the pool expands whether or not it is extendible
expandPool_spawns_always ==
  IF numberOfIdleThreads < numberOfTasksWaitingToBeProcessed THEN 2 ELSE 0

\* expandPool's decision: spawn two threads iff the pool is extendible and
\* fewer threads are idle than tasks are waiting
expandPool_spawns ==
  IF extendible /\ numberOfIdleThreads < numberOfTasksWaitingToBeProcessed
  THEN 2 ELSE 0

(***************************************************************************)
(* The state after the constructors: numThreads valid empty queues,        *)
(* numThreads threads created by newThreads (none has run yet), an empty   *)
(* memory pool; the scheduler's histories are zero.                        *)
(***************************************************************************)
(***************************************************************************)
(* ThreadSafeSpinLockQueue<T>.  Each call takes the spin lock, and what it *)
(* does until it unlocks is one step.                                      *)
(***************************************************************************)
Callers == 1..NumCallers

NoValue == [p |-> 0, n |-> 0]

NewSpinLockQueue == [m_queue |-> <<>>, m_valid |-> TRUE, spinLock |-> 0]

IdleCaller == [pc |-> "idle", op |-> "none", value |-> NoValue, out |-> NoValue,
               ret |-> FALSE, s |-> 0, pushes |-> 0]

\* m_queue.push(std::move(value))
spin_internal_push(q, value) == [q EXCEPT !.m_queue = Append(@, value)]

\* out = std::move(m_queue.front())
spin_front(q) == Head(q.m_queue)

\* m_queue.pop()
\* variant: the front value is read and left in the queue
spin_internal_pop_keep(q) == q
spin_internal_pop(q) == [q EXCEPT !.m_queue = Tail(@)]

\* pthread_spin_unlock
spin_unlock(q) == [q EXCEPT !.spinLock = 0]

\* auto s = m_queue.size()
spin_size(q) == Len(q.m_queue)

QueueInit ==
  /\ spinQueue = NewSpinLockQueue
  /\ callers = [t \in Callers |-> IdleCaller]
  /\ g_spin_pushed = <<>>
  /\ g_spin_popped = <<>>

(***************************************************************************)
(* ThreadPoolForC: one queue for all workers, and a memory pool of task    *)
(* records with a vector of availability flags.                            *)
(***************************************************************************)
IdleForCSubmitter == [pc |-> "idle", cTask |-> 0, args |-> NoTask]

NewForCWorker == [pc |-> "loop", pTask |-> 0]

\* the scan of memoryPoolAvailability in submitAndDetach: cTask is set at
\* every available index, and the loop goes on to the end of the vector
RECURSIVE scan_cTask(_, _)
scan_cTask(avail, n) ==
  IF n = 0 THEN 0
  ELSE IF avail[n] THEN n ELSE scan_cTask(avail, n - 1)

\* variant: the scan leaves the flags as they are
scan_availability_keep(avail) == avail

\* memoryPoolAvailability after the scan: [i] = false at every available i
scan_availability(avail) == [i \in DOMAIN avail |-> FALSE]

ForCInit ==
  /\ poolForC = [memoryPool |-> <<>>, memoryPoolAvailability |-> <<>>,
                 cWorkQueue |-> NewQueue, m_done |-> FALSE, destroyed |-> 0]
  /\ forCSubmitters = [s \in TwoCallers |-> IdleForCSubmitter]
  /\ forCWorkers = [w \in 1..NumThreads |-> NewForCWorker]
  /\ g_forC = [holders |-> <<>>, submitted |-> 0, outstanding |-> 0, peak |-> 0]

(***************************************************************************)
(* ThreadSafeMutexQueue and ThreadSafeMutexQueueSleep used on their own.   *)
(* A thread that waits on a condition variable stays at "wait_empty" or    *)
(* "wait_full" until it is notified, and then takes m_mutex again.         *)
(***************************************************************************)
MutexQueueKinds == {"condition", "sleep"}

QueueKinds == MutexQueueKinds \cup {"spin"}

\* the first thread fills the queue and ends its life, the others use it
QueueRole(t) ==
  CASE t = 1 -> {"push", "waitPush", "invalidate"}
    [] t = 2 -> {"tryPop", "waitPop"}
    [] OTHER -> {"waitPop", "waitPush"}

\* the maxSize that the callers give to waitPush
MaxSize == 1

NewMutexQueue(kind) ==
  [kind |-> kind, m_queue |-> <<>>, m_valid |-> TRUE, m_mutex |-> 0]

\* g_queue, g_valid: the queue and its flag when the call decided its result;
\* g_after: the queue the call left
IdleMutexCaller ==
  [pc |-> "idle", op |-> "none", value |-> 0, out |-> 0, ret |-> FALSE,
   g_queue |-> <<>>, g_valid |-> TRUE, g_after |-> <<>>]

\* the lock object goes out of scope
mutex_unlock(q) == [q EXCEPT !.m_mutex = 0]

\* the threads that wait on a condition variable
waiting(cs, cond) == {u \in DOMAIN cs : cs[u].pc = cond}

\* notify_one wakes one of the waiting threads, if there is one
notify_one_choices(cs, cond) ==
  IF waiting(cs, cond) = {} THEN {0} ELSE waiting(cs, cond)

notify_one(cs, cond, n) ==
  [u \in DOMAIN cs |-> IF u = n /\ cs[u].pc = cond
                       THEN [cs[u] EXCEPT !.pc = "lock"] ELSE cs[u]]

\* variant: the waiting threads are not woken
notify_none(cs, cond) == cs
notify_all(cs, cond) ==
  [u \in DOMAIN cs |-> IF cs[u].pc = cond
                       THEN [cs[u] EXCEPT !.pc = "lock"] ELSE cs[u]]

\* where waitPop goes on an empty valid queue: empty_condition.wait(lock, ...)
empty_condition_wait == "wait_empty"

\* do { lock.unlock(); sleep_for(time); lock.lock(); } while (empty && valid)
internal_waitWhileEmpty == "lock"

\* the call returns ret, with out written when a value was taken
returns(c, q, q2, ret, out) ==
  [c EXCEPT !.pc = "return", !.ret = ret, !.out = out, !.g_queue = q.m_queue,
            !.g_valid = q.m_valid, !.g_after = q2.m_queue]

MutexQueueInit(kind) ==
  /\ mutexQueue = NewMutexQueue(kind)
  /\ mutexCallers = [t \in Callers |-> IdleMutexCaller]
  /\ g_mutex = [pushed |-> <<>>, popped |-> <<>>, issued |-> 0]

(***************************************************************************)
(* The life of a pool object: construction with an optional callback,      *)
(* appendCodeToDeconstructor, destroy() and the destructor.  Callbacks are *)
(* 1..MaxCallbacks, 0 is nullptr.                                          *)
(***************************************************************************)
MaxCallbacks == 2

MaxDestroys == 2

PoolClasses == {"ThreadPool", "ThreadPoolForC"}

\* ThreadPoolInterface(extendible, numThreads, code) and ThreadPool(...):
\* if (code != nullptr) codeToExecuteByTheDeconstructor.push(code)
register(code) == IF code # 0 THEN <<code>> ELSE <<>>

\* the callbacks the constructor of the class registers: ThreadPoolForC names
\* no base in its initializer list, so its base is built by
\* ThreadPoolInterface(void), that is with nullptr
constructor_code(cls, code) ==
  IF cls = "ThreadPool" THEN register(code) ELSE register(0)

\* what destroy() does, in order: ThreadPool::destroy runs the callbacks,
\* sets m_done, invalidates the queue, joins the joinable threads and deletes
\* the flags; ThreadPoolForC::destroy does the same without the callbacks
destroy_stages(cls) ==
  IF cls = "ThreadPool" THEN <<"callbacks", "quit", "delete", "return">>
  ELSE <<"quit", "delete", "return">>

\* the destructor: ~ThreadPool calls destroy(); ~ThreadPoolForC calls
\* destroy() and then ~ThreadPoolInterface runs the callbacks, joins the
\* joinable threads and deletes the flags
destructor_stages(cls) ==
  IF cls = "ThreadPool" THEN destroy_stages(cls) \o <<"dead">>
  ELSE destroy_stages(cls) \o <<"callbacks", "delete", "dead">>

\* the state of the pool that a finished destroy() leaves
PoolState(l) ==
  [codeToExecuteByTheDeconstructor |-> l.codeToExecuteByTheDeconstructor,
   m_done |-> l.m_done, m_valid |-> l.m_valid, joinable |-> l.joinable,
   deleted |-> l.deleted, g_ran |-> l.g_ran]

LifecycleInit ==
  lifecycle = [pc |-> "none", cls |-> "none",
               codeToExecuteByTheDeconstructor |-> <<>>, m_done |-> FALSE,
               m_valid |-> TRUE, joinable |-> <<>>, deleted |-> <<>>,
               todo |-> <<>>, destroys |-> 0, g_registered |-> <<>>,
               g_ran |-> <<>>, g_first |-> <<>>]

\* ---------------------------------------------------------------------------
\* The locks of ThreadPoolForCMultiQueues and ThreadPoolForC, and the order in
\* which the code of each thread takes them.  A step is a lock operation of
\* the code; the steps of a function are in the order of its statements.
\* ---------------------------------------------------------------------------
NoThread == "none"
LockThreads == {"submitter", "worker", "destructor", "forCSubmitter", "forCWorker"}
LockNames == {"memoryPoolLock", "availabilityLock", "cWorkQueuesLock",
              "cWorkQueues.m_mutex", "cWorkQueue.m_mutex", "extendingMutex"}

\* what a lock protects: the task records and their pool, a work queue or the
\* vector of the work queues, the vector of the threads; Scheduler.hpp
\* declares no lock
LockClass(l) ==
  CASE l \in {"memoryPoolLock", "availabilityLock"} -> "task-pool"
    [] l \in {"cWorkQueuesLock", "cWorkQueues.m_mutex", "cWorkQueue.m_mutex"} -> "queue"
    [] OTHER -> "threads"

acquire(l) == [kind |-> "lock", lock |-> l]
release(l) == [kind |-> "unlock", lock |-> l]
condition_wait(l) == [kind |-> "wait", lock |-> l]

\* std::lock_guard<std::mutex> lock{m_mutex} of push, size and invalidate
lock_guard(l) == <<acquire(l), release(l)>>

\* waitPop: unique_lock, empty_condition.wait(lock, predicate), return
waitPop_locks(l) == <<acquire(l), condition_wait(l), release(l)>>

\* expandPool of an extendible pool: numberOfTasksWaitingToBeProcessed, then
\* newThreads under extendingMutex
expandPool_locks(counting) == counting \o lock_guard("extendingMutex")

\* ThreadPoolForCMultiQueues::submitAndDetach(f, args, li) of an extendible
\* pool, from the push on; getTask is called before it with no lock held
submitAndDetach_locks ==
  [steps |-> <<acquire("cWorkQueuesLock")>> \o lock_guard("cWorkQueues.m_mutex")
             \o <<release("cWorkQueuesLock")>>
             \o expandPool_locks(<<acquire("cWorkQueuesLock")>>
                                 \o lock_guard("cWorkQueues.m_mutex")
                                 \o <<release("cWorkQueuesLock")>>),
   loop |-> 1]

\* ThreadPoolForCMultiQueues::workerFunction: the fetch of the queue, then the
\* loop of waitPop and setAvailable
workerFunction_locks ==
  [steps |-> lock_guard("cWorkQueuesLock") \o waitPop_locks("cWorkQueues.m_mutex")
             \o lock_guard("availabilityLock"),
   loop |-> 3]

\* ~ThreadPoolForCMultiQueues: invalidate under cWorkQueuesLock
destructor_locks ==
  [steps |-> <<acquire("cWorkQueuesLock")>> \o lock_guard("cWorkQueues.m_mutex")
             \o <<release("cWorkQueuesLock")>>,
   loop |-> 0]

\* ThreadPoolForC::submitAndDetach: the fetch of the memory, the push,
\* expandPool
forC_submitAndDetach_locks ==
  [steps |-> lock_guard("memoryPoolLock") \o lock_guard("cWorkQueue.m_mutex")
             \o expandPool_locks(lock_guard("cWorkQueue.m_mutex")),
   loop |-> 1]

\* a worker that marks the record available before waitPop has let go of the
\* mutex of the queue
forC_worker_locks_nested ==
  [steps |-> <<acquire("cWorkQueue.m_mutex"), condition_wait("cWorkQueue.m_mutex"),
               acquire("memoryPoolLock"), release("memoryPoolLock"),
               release("cWorkQueue.m_mutex")>>,
   loop |-> 1]

\* ThreadPoolForC::worker: waitPop, then the record is marked available
forC_worker_locks ==
  [steps |-> waitPop_locks("cWorkQueue.m_mutex") \o lock_guard("memoryPoolLock"),
   loop |-> 1]

LockProgram(t) ==
  CASE t = "submitter" -> submitAndDetach_locks
    [] t = "worker" -> workerFunction_locks
    [] t = "destructor" -> destructor_locks
    [] t = "forCSubmitter" -> forC_submitAndDetach_locks
    [] t = "forCWorker" -> forC_worker_locks

LockInit ==
  /\ lockOwner = [l \in LockNames |-> NoThread]
  /\ lockThreads = [t \in LockThreads |-> [pc |-> 1, sleeping |-> FALSE]]

\* ---------------------------------------------------------------------------
\* The caches of the topology (Architecture.hpp, class Cache).
\* ---------------------------------------------------------------------------
NumCaches == 3
Caches == 1..NumCaches
nullptr == 0

\* variant: the cache is added to the higher caches of the other whether it
\* is there or not
associate_lower_cache_again(caches, this, other) ==
  [lower_cache_ |-> [caches.lower_cache_ EXCEPT ![this] = other],
   higher_caches_ |-> [caches.higher_caches_ EXCEPT ![other] = Append(@, this)]]

\* this->lower_cache_ = other; then this is added at the end of
\* other->higher_caches_ unless the loop finds it there
associate_lower_cache(caches, this, other) ==
  [lower_cache_ |-> [caches.lower_cache_ EXCEPT ![this] = other],
   higher_caches_ |->
     IF \E i \in DOMAIN caches.higher_caches_[other] :
          caches.higher_caches_[other][i] = this
     THEN caches.higher_caches_
     ELSE [caches.higher_caches_ EXCEPT ![other] = Append(@, this)]]

\* Cache() is declared only: a new cache has no lower cache and no higher
\* caches
CacheInit ==
  /\ lower_cache_ = [c \in Caches |-> nullptr]
  /\ higher_caches_ = [c \in Caches |-> <<>>]
  /\ g_lastCall = [this |-> nullptr, other |-> nullptr, twice |-> FALSE,
                   lower_cache_ |-> nullptr, higher_caches_ |-> <<>>]

IdleSubmitter ==
  [pc |-> "idle", via |-> "none", li |-> 0, cTask |-> 0, args |-> NoTask,
   mine |-> {}, weight |-> 0, k |-> 0, best_hist |-> 0, best_pu |-> 0,
   lowest_work |-> 0, sum |-> 0, ret |-> 0,
   g_history |-> <<>>, g_weight |-> 0, g_queue |-> 0]

\* ThreadPoolForCMultiQueues(extendible, numThreads): numThreads queues, then
\* newThreads(numThreads)
ThreadPoolForCMultiQueues(ext, numThreads) ==
  /\ m_done = FALSE
  /\ extendible = ext
  /\ threadAvailability = newThreads_flags(<<>>, numThreads)
  /\ workers = newThreads_workers(<<>>, numThreads)
  /\ cWorkQueues = [i \in 0..(numThreads - 1) |-> NewQueue]
  /\ cWorkQueuesLock = "free"
  /\ memoryPool = <<>>
  /\ nextLocality = 0
  /\ locks = [t \in Tasks |-> "locked"]
  /\ dtor = [pc |-> "alive", i |-> 0]
  /\ g_pushed = [i \in 0..(numThreads - 1) |-> <<>>]
  /\ g_executed = [i \in 1..numThreads |-> <<>>]
  /\ g_leases = 0
  /\ g_releases = 0

PoolInit(ext) ==
  /\ m_done = FALSE
  /\ extendible = ext
  /\ threadAvailability = newThreads_flags(<<>>, NumThreads)
  /\ workers = newThreads_workers(<<>>, NumThreads)
  /\ cWorkQueues = [i \in 0..(NumThreads - 1) |-> NewQueue]
  /\ cWorkQueuesLock = "free"
  /\ memoryPool = <<>>
  /\ nextLocality = 0
  /\ locks = [t \in Tasks |-> "locked"]
  /\ dtor = [pc |-> "alive", i |-> 0]
  /\ g_pushed = [i \in 0..(NumThreads - 1) |-> <<>>]
  /\ g_executed = [i \in 1..NumThreads |-> <<>>]
  /\ g_leases = 0
  /\ g_releases = 0

SchedInit ==
  /\ history_ = [i \in DOMAIN PU_ID |-> 0]
  /\ trueHistory = [i \in DOMAIN PU_ID |-> 0]
  /\ last_cpu = FIRST_CPU
  /\ g_weights = <<>>

Init ==
  /\ QueueInit
  /\ MutexQueueInit("condition")
  /\ ForCInit
  /\ LifecycleInit
  /\ LockInit
  /\ CacheInit
  /\ PoolInit(FALSE)
  /\ SchedInit
  /\ submitters = [s \in MainThread |-> IdleSubmitter]
  /\ aborted = FALSE
  /\ submitted = 0

(***************************************************************************)
(* A caller's thread.  It submits task `args` (whose lock it holds) and    *)
(* may later block on that lock, which the task releases                   *)
(* (tests/pool/stresstest2.cpp).                                           *)
(***************************************************************************)
LocalityIslands == 0..MaxTasks

\* submitAndDetach(f, args): li = nextLocality
submitAndDetach(s) ==
  /\ ~aborted /\ dtor.pc = "alive"
  /\ submitters[s].pc = "idle"
  /\ submitted < MaxTasks
  /\ submitted' = submitted + 1
  /\ submitters' = [submitters EXCEPT ![s].pc = "getTask", ![s].via = "static",
                      ![s].li = nextLocality, ![s].args = submitted + 1]
  /\ UNCHANGED <<extraVars, lifecycle, mutexVars, forCVars, queueVars, poolVars, aborted, schedVars>>

\* submitAndDetach(f, args, li) called directly
submitAndDetachLi(s, li) ==
  /\ ~aborted /\ dtor.pc = "alive"
  /\ submitters[s].pc = "idle"
  /\ submitted < MaxTasks
  /\ submitted' = submitted + 1
  /\ submitters' = [submitters EXCEPT ![s].pc = "getTask", ![s].via = "li",
                      ![s].li = li, ![s].args = submitted + 1]
  /\ UNCHANGED <<extraVars, lifecycle, mutexVars, forCVars, queueVars, poolVars, aborted, schedVars>>

\* auto cTask = this->getTask()
GetTask(s) ==
  /\ ~aborted
  /\ submitters[s].pc = "getTask"
  /\ memoryPool' = getTask_pool(memoryPool)
  /\ g_leases' = g_leases + 1
  /\ submitters' = [submitters EXCEPT ![s].pc = "setFunction",
                      ![s].cTask = getTask_index(memoryPool)]
  /\ UNCHANGED <<extraVars, lifecycle, mutexVars, forCVars, queueVars, m_done, extendible, threadAvailability, workers, cWorkQueues,
                 cWorkQueuesLock, nextLocality, locks, dtor, g_pushed,
                 g_executed, g_releases, aborted, schedVars, submitted>>

\* cTask->setFunction(f, args)
SetFunction(s) ==
  /\ ~aborted
  /\ submitters[s].pc = "setFunction"
  /\ memoryPool' = setFunction(memoryPool, submitters[s].cTask, submitters[s].args)
  /\ submitters' = [submitters EXCEPT ![s].pc = "push"]
  /\ UNCHANGED <<extraVars, lifecycle, mutexVars, forCVars, queueVars, m_done, extendible, threadAvailability, workers, cWorkQueues,
                 cWorkQueuesLock, nextLocality, locks, dtor, g_pushed,
                 g_executed, g_leases, g_releases, aborted, schedVars, submitted>>

\* cWorkQueues.at(li % size)->push(cTask), under cWorkQueuesLock if extendible
Push(s) ==
  /\ ~aborted
  /\ submitters[s].pc = "push"
  /\ extendible => cWorkQueuesLock = "free"
  /\ LET q == queueID(submitters[s].li)
     IN  /\ cWorkQueues' = [cWorkQueues EXCEPT ![q] = internal_push(@, submitters[s].cTask)]
         /\ g_pushed' = [g_pushed EXCEPT ![q] = Append(@, submitters[s].args)]
  /\ submitters' = [submitters EXCEPT ![s].pc = "expandPool",
                      ![s].g_queue = queueID(submitters[s].li)]
  /\ UNCHANGED <<extraVars, lifecycle, mutexVars, forCVars, queueVars, m_done, extendible, threadAvailability, workers,
                 cWorkQueuesLock, memoryPool, nextLocality, locks, dtor,
                 g_executed, g_leases, g_releases, aborted, schedVars, submitted>>

\* where submitAndDetach(f, args, li) returns to
AfterSubmit(via) ==
  CASE via = "static" -> "increment"
    [] via = "sched" -> "sched_return"
    [] OTHER -> "idle"

\* this->expandPool(), then return
ExpandPool(s) ==
  /\ ~aborted
  /\ submitters[s].pc = "expandPool"
  /\ extendible => cWorkQueuesLock = "free"
  /\ IF m_done
     THEN /\ aborted' = TRUE
          /\ UNCHANGED <<submitters, workers, threadAvailability, g_executed>>
     ELSE /\ workers' = newThreads_workers(workers, expandPool_spawns)
          /\ threadAvailability' = newThreads_flags(threadAvailability, expandPool_spawns)
          /\ g_executed' = g_executed \o [i \in 1..expandPool_spawns |-> <<>>]
          /\ submitters' = [submitters EXCEPT
               ![s].pc = AfterSubmit(submitters[s].via),
               ![s].via = IF @ = "li" THEN "none" ELSE @,
               ![s].li = 0, ![s].cTask = 0, ![s].args = NoTask,
               ![s].g_queue = IF submitters[s].via = "sched" THEN @ ELSE 0,
               ![s].mine = @ \cup {submitters[s].args}]
          /\ UNCHANGED aborted
  /\ UNCHANGED <<extraVars, lifecycle, mutexVars, forCVars, queueVars, m_done, extendible, cWorkQueues, cWorkQueuesLock, memoryPool,
                 nextLocality, locks, dtor, g_pushed, g_leases, g_releases,
                 schedVars, submitted>>

\* nextLocality++
IncrementLocality(s) ==
  /\ ~aborted
  /\ submitters[s].pc = "increment"
  /\ nextLocality' = nextLocality + 1
  /\ submitters' = [submitters EXCEPT ![s].pc = "idle", ![s].via = "none"]
  /\ UNCHANGED <<extraVars, lifecycle, mutexVars, forCVars, queueVars, m_done, extendible, threadAvailability, workers, cWorkQueues,
                 cWorkQueuesLock, memoryPool, locks, dtor, g_pushed,
                 g_executed, g_leases, g_releases, aborted, schedVars, submitted>>

\* pthread_spin_lock(&lock) on the lock of a task it submitted: starts to
\* wait; the tests wait for their tasks in the order they submitted them
LockWait(s, t) ==
  /\ ~aborted
  /\ submitters[s].pc = "idle"
  /\ t \in submitters[s].mine
  /\ \A u \in submitters[s].mine : t <= u
  /\ submitters' = [submitters EXCEPT ![s].pc = "spin_lock", ![s].args = t]
  /\ UNCHANGED <<extraVars, lifecycle, mutexVars, forCVars, queueVars, poolVars, aborted, schedVars, submitted>>

\* the lock was released by the task: the caller takes it and goes on
LockAcquire(s) ==
  /\ ~aborted
  /\ submitters[s].pc = "spin_lock"
  /\ locks[submitters[s].args] = "unlocked"
  /\ locks' = [locks EXCEPT ![submitters[s].args] = "locked"]
  /\ submitters' = [submitters EXCEPT ![s].pc = "idle", ![s].args = NoTask,
                      ![s].mine = @ \ {submitters[s].args}]
  /\ UNCHANGED <<extraVars, lifecycle, mutexVars, forCVars, queueVars, m_done, extendible, threadAvailability, workers, cWorkQueues,
                 cWorkQueuesLock, memoryPool, nextLocality, dtor, g_pushed,
                 g_executed, g_leases, g_releases, aborted, schedVars, submitted>>

(***************************************************************************)
(* A worker thread: workerFunctionTrampoline, then workerFunction.         *)
(***************************************************************************)
WorkerQueue(w) == workers[w].thread

\* workerFunctionTrampoline: a thread that starts after m_done only clears
\* its flag
Trampoline(w) ==
  /\ ~aborted
  /\ workers[w].pc = "start"
  /\ IF m_done
     THEN /\ threadAvailability' = [threadAvailability EXCEPT ![w] = FALSE]
          /\ workers' = [workers EXCEPT ![w].pc = "finished"]
     ELSE /\ workers' = [workers EXCEPT ![w].pc = "fetchQueue"]
          /\ UNCHANGED threadAvailability
  /\ UNCHANGED <<extraVars, lifecycle, mutexVars, forCVars, queueVars, m_done, extendible, cWorkQueues, cWorkQueuesLock, memoryPool,
                 nextLocality, locks, dtor, g_pushed, g_executed, g_leases,
                 g_releases, submitters, aborted, schedVars, submitted>>

\* threadQueue = cWorkQueues.at(thread) under cWorkQueuesLock; at() throws
\* std::out_of_range, which ends the process, when thread is no index
FetchQueue(w) ==
  /\ ~aborted
  /\ workers[w].pc = "fetchQueue"
  /\ cWorkQueuesLock = "free"
  /\ IF WorkerQueue(w) \in DOMAIN cWorkQueues
     THEN workers' = [workers EXCEPT ![w].pc = "loop"] /\ UNCHANGED aborted
     ELSE aborted' = TRUE /\ UNCHANGED workers
  /\ UNCHANGED <<extraVars, lifecycle, mutexVars, forCVars, queueVars, m_done, extendible, threadAvailability, cWorkQueues,
                 cWorkQueuesLock, memoryPool, nextLocality, locks, dtor,
                 g_pushed, g_executed, g_leases, g_releases, submitters,
                 schedVars, submitted>>

\* while(!m_done)
WorkerLoop(w) ==
  /\ ~aborted
  /\ workers[w].pc = "loop"
  /\ workers' = [workers EXCEPT ![w].pc = IF m_done THEN "return" ELSE "available"]
  /\ UNCHANGED <<extraVars, lifecycle, mutexVars, forCVars, queueVars, m_done, extendible, threadAvailability, cWorkQueues,
                 cWorkQueuesLock, memoryPool, nextLocality, locks, dtor,
                 g_pushed, g_executed, g_leases, g_releases, submitters,
                 aborted, schedVars, submitted>>

\* (*availability) = true; ThreadCTask *pTask = nullptr
WorkerAvailable(w) ==
  /\ ~aborted
  /\ workers[w].pc = "available"
  /\ threadAvailability' = [threadAvailability EXCEPT ![w] = TRUE]
  /\ workers' = [workers EXCEPT ![w].pc = "waitPop", ![w].pTask = 0]
  /\ UNCHANGED <<extraVars, lifecycle, mutexVars, forCVars, queueVars, m_done, extendible, cWorkQueues, cWorkQueuesLock, memoryPool,
                 nextLocality, locks, dtor, g_pushed, g_executed, g_leases,
                 g_releases, submitters, aborted, schedVars, submitted>>

\* threadQueue->waitPop(pTask); on false pTask stays null and the loop goes on
WorkerWaitPop(w) ==
  /\ ~aborted
  /\ workers[w].pc = "waitPop"
  /\ LET q == cWorkQueues[WorkerQueue(w)]
     IN  /\ waitPop_ready(q)
         /\ IF waitPop_result(q)
            THEN /\ workers' = [workers EXCEPT ![w].pc = "unavailable", ![w].pTask = front(q)]
                 /\ cWorkQueues' = [cWorkQueues EXCEPT ![WorkerQueue(w)] = internal_pop(q)]
            ELSE /\ workers' = [workers EXCEPT ![w].pc = "loop"]
                 /\ UNCHANGED cWorkQueues
  /\ UNCHANGED <<extraVars, lifecycle, mutexVars, forCVars, queueVars, m_done, extendible, threadAvailability, cWorkQueuesLock,
                 memoryPool, nextLocality, locks, dtor, g_pushed, g_executed,
                 g_leases, g_releases, submitters, aborted, schedVars, submitted>>

\* variant: the worker goes on to the task without clearing its flag
WorkerUnavailable_skip(w) ==
  /\ ~aborted
  /\ workers[w].pc = "unavailable"
  /\ workers' = [workers EXCEPT ![w].pc = "execute"]
  /\ UNCHANGED <<extraVars, lifecycle, mutexVars, forCVars, queueVars, m_done, extendible, cWorkQueues, cWorkQueuesLock, memoryPool,
                 nextLocality, locks, dtor, g_pushed, g_executed, g_leases,
                 g_releases, submitters, aborted, schedVars, submitted, threadAvailability>>

\* (*availability) = false
WorkerUnavailable(w) ==
  /\ ~aborted
  /\ workers[w].pc = "unavailable"
  /\ threadAvailability' = [threadAvailability EXCEPT ![w] = FALSE]
  /\ workers' = [workers EXCEPT ![w].pc = "execute"]
  /\ UNCHANGED <<extraVars, lifecycle, mutexVars, forCVars, queueVars, m_done, extendible, cWorkQueues, cWorkQueuesLock, memoryPool,
                 nextLocality, locks, dtor, g_pushed, g_executed, g_leases,
                 g_releases, submitters, aborted, schedVars, submitted>>

\* pTask->execute(): the task function runs on the record's args and
\* releases the caller's lock
WorkerExecute(w) ==
  /\ ~aborted
  /\ workers[w].pc = "execute"
  /\ LET a == memoryPool[workers[w].pTask].args
     IN  /\ locks' = [locks EXCEPT ![a] = "unlocked"]
         /\ g_executed' = [g_executed EXCEPT ![w] = Append(@, a)]
  /\ workers' = [workers EXCEPT ![w].pc = "release"]
  /\ UNCHANGED <<extraVars, lifecycle, mutexVars, forCVars, queueVars, m_done, extendible, threadAvailability, cWorkQueues,
                 cWorkQueuesLock, memoryPool, nextLocality, dtor, g_pushed,
                 g_leases, g_releases, submitters, aborted, schedVars, submitted>>

\* if (pTask) pTask->setAvailable()
WorkerRelease(w) ==
  /\ ~aborted
  /\ workers[w].pc = "release"
  /\ memoryPool' = setAvailable(memoryPool, workers[w].pTask)
  /\ g_releases' = g_releases + 1
  /\ workers' = [workers EXCEPT ![w].pc = "loop", ![w].pTask = 0]
  /\ UNCHANGED <<extraVars, lifecycle, mutexVars, forCVars, queueVars, m_done, extendible, threadAvailability, cWorkQueues,
                 cWorkQueuesLock, nextLocality, locks, dtor, g_pushed,
                 g_executed, g_leases, submitters, aborted, schedVars, submitted>>

\* workerFunction returned: the trampoline clears the flag and the thread ends
WorkerReturn(w) ==
  /\ ~aborted
  /\ workers[w].pc = "return"
  /\ threadAvailability' = [threadAvailability EXCEPT ![w] = FALSE]
  /\ workers' = [workers EXCEPT ![w].pc = "finished"]
  /\ UNCHANGED <<extraVars, lifecycle, mutexVars, forCVars, queueVars, m_done, extendible, cWorkQueues, cWorkQueuesLock, memoryPool,
                 nextLocality, locks, dtor, g_pushed, g_executed, g_leases,
                 g_releases, submitters, aborted, schedVars, submitted>>

(***************************************************************************)
(* The destructor: ~ThreadPoolForCMultiQueues, then ~ThreadPoolInterface.  *)
(* It runs in a caller's thread once no submitAndDetach is in progress.    *)
(***************************************************************************)
\* variant: the destructor goes on to invalidate the queues without setting
\* m_done
DtorBegin_notDone ==
  /\ ~aborted
  /\ dtor.pc = "alive"
  /\ \A s \in Submitters : submitters[s].pc = "idle"
  /\ dtor' = [dtor EXCEPT !.pc = "lock"]
  /\ UNCHANGED <<extraVars, lifecycle, mutexVars, forCVars, queueVars, extendible, threadAvailability, workers, cWorkQueues,
                 cWorkQueuesLock, memoryPool, nextLocality, locks, g_pushed,
                 g_executed, g_leases, g_releases, submitters, aborted,
                 schedVars, submitted, m_done>>

\* m_done = true
DtorBegin ==
  /\ ~aborted
  /\ dtor.pc = "alive"
  /\ \A s \in Submitters : submitters[s].pc = "idle"
  /\ m_done' = TRUE
  /\ dtor' = [dtor EXCEPT !.pc = "lock"]
  /\ UNCHANGED <<extraVars, lifecycle, mutexVars, forCVars, queueVars, extendible, threadAvailability, workers, cWorkQueues,
                 cWorkQueuesLock, memoryPool, nextLocality, locks, g_pushed,
                 g_executed, g_leases, g_releases, submitters, aborted,
                 schedVars, submitted>>

\* pthread_spin_lock(&cWorkQueuesLock)
DtorLock ==
  /\ ~aborted
  /\ dtor.pc = "lock"
  /\ cWorkQueuesLock = "free"
  /\ cWorkQueuesLock' = "dtor"
  /\ dtor' = [pc |-> "invalidate", i |-> 0]
  /\ UNCHANGED <<extraVars, lifecycle, mutexVars, forCVars, queueVars, m_done, extendible, threadAvailability, workers, cWorkQueues,
                 memoryPool, nextLocality, locks, g_pushed, g_executed,
                 g_leases, g_releases, submitters, aborted, schedVars, submitted>>

\* for (auto queue : cWorkQueues) queue->invalidate(); then unlock
DtorInvalidate ==
  /\ ~aborted
  /\ dtor.pc = "invalidate"
  /\ IF dtor.i < NumQueues
     THEN /\ cWorkQueues' = [cWorkQueues EXCEPT ![dtor.i] = invalidate(@)]
          /\ dtor' = [dtor EXCEPT !.i = @ + 1]
          /\ UNCHANGED cWorkQueuesLock
     ELSE /\ cWorkQueuesLock' = "free"
          /\ dtor' = [pc |-> "waitFlags", i |-> 1]
          /\ UNCHANGED cWorkQueues
  /\ UNCHANGED <<extraVars, lifecycle, mutexVars, forCVars, queueVars, m_done, extendible, threadAvailability, workers, memoryPool,
                 nextLocality, locks, g_pushed, g_executed, g_leases,
                 g_releases, submitters, aborted, schedVars, submitted>>

\* waitAllThreadsToBeUnavailable: while (*threadAvailability[i]);
DtorWaitFlags ==
  /\ ~aborted
  /\ dtor.pc = "waitFlags"
  /\ IF dtor.i <= Len(threadAvailability)
     THEN /\ ~threadAvailability[dtor.i]
          /\ dtor' = [dtor EXCEPT !.i = @ + 1]
     ELSE dtor' = [pc |-> "join", i |-> 1]
  /\ UNCHANGED <<extraVars, lifecycle, mutexVars, forCVars, queueVars, m_done, extendible, threadAvailability, workers, cWorkQueues,
                 cWorkQueuesLock, memoryPool, nextLocality, locks, g_pushed,
                 g_executed, g_leases, g_releases, submitters, aborted,
                 schedVars, submitted>>

\* ~ThreadPoolInterface: thread.join() for every thread, then the flags are
\* deleted and the destructor returns
DtorJoin ==
  /\ ~aborted
  /\ dtor.pc = "join"
  /\ IF dtor.i <= Len(workers)
     THEN /\ workers[dtor.i].pc = "finished"
          /\ dtor' = [dtor EXCEPT !.i = @ + 1]
     ELSE dtor' = [pc |-> "dead", i |-> 0]
  /\ UNCHANGED <<extraVars, lifecycle, mutexVars, forCVars, queueVars, m_done, extendible, threadAvailability, workers, cWorkQueues,
                 cWorkQueuesLock, memoryPool, nextLocality, locks, g_pushed,
                 g_executed, g_leases, g_releases, submitters, aborted,
                 schedVars, submitted>>

\* the steps of caller s inside submitAndDetach, and of worker w
SubmitterStep(s) ==
  GetTask(s) \/ SetFunction(s) \/ Push(s) \/ ExpandPool(s) \/ IncrementLocality(s)

WorkerStep(w) ==
  \/ Trampoline(w) \/ FetchQueue(w) \/ WorkerLoop(w) \/ WorkerAvailable(w)
  \/ WorkerWaitPop(w) \/ WorkerUnavailable(w) \/ WorkerExecute(w)
  \/ WorkerRelease(w) \/ WorkerReturn(w)

(***************************************************************************)
(* Spec: a pool that is used by one thread and then destroyed.             *)
(***************************************************************************)
Next ==
  \/ \E s \in Submitters : submitAndDetach(s)
  \/ \E s \in Submitters, li \in LocalityIslands : submitAndDetachLi(s, li)
  \/ \E s \in Submitters : GetTask(s)
  \/ \E s \in Submitters : SetFunction(s)
  \/ \E s \in Submitters : Push(s)
  \/ \E s \in Submitters : ExpandPool(s)
  \/ \E s \in Submitters : IncrementLocality(s)
  \/ \E w \in Workers : Trampoline(w)
  \/ \E w \in Workers : FetchQueue(w)
  \/ \E w \in Workers : WorkerLoop(w)
  \/ \E w \in Workers : WorkerAvailable(w)
  \/ \E w \in Workers : WorkerWaitPop(w)
  \/ \E w \in Workers : WorkerUnavailable(w)
  \/ \E w \in Workers : WorkerExecute(w)
  \/ \E w \in Workers : WorkerRelease(w)
  \/ \E w \in Workers : WorkerReturn(w)
  \/ DtorBegin
  \/ DtorLock
  \/ DtorInvalidate
  \/ DtorWaitFlags
  \/ DtorJoin

Spec == Init /\ [][Next]_vars

\* a step of a worker or of the destructor once it has begun
ShutdownStep ==
  \/ \E w \in Workers : WorkerStep(w)
  \/ DtorLock
  \/ DtorInvalidate
  \/ DtorWaitFlags
  \/ DtorJoin

\* the pool with its shutdown; a thread that can take a step eventually
\* takes one, so a task that is executing terminates
SpecShutdown == Init /\ [][Next]_vars /\ WF_vars(ShutdownStep)

\* the pool constructed with extendible = true
InitExtendible ==
  /\ QueueInit
  /\ MutexQueueInit("condition")
  /\ ForCInit
  /\ LifecycleInit
  /\ LockInit
  /\ CacheInit
  /\ PoolInit(TRUE)
  /\ SchedInit
  /\ submitters = [s \in MainThread |-> IdleSubmitter]
  /\ aborted = FALSE
  /\ submitted = 0

\* the most worker threads the extendible pool is let to have
MaxWorkers == 4

\* the extendible pool while it is running
NextExtendible ==
  \/ \E s \in Submitters : submitAndDetach(s)
  \/ \E s \in Submitters : GetTask(s)
  \/ \E s \in Submitters : SetFunction(s)
  \/ \E s \in Submitters : Push(s)
  \/ \E s \in Submitters :
       Len(workers) + expandPool_spawns <= MaxWorkers /\ ExpandPool(s)
  \/ \E s \in Submitters : IncrementLocality(s)
  \/ \E w \in Workers : Trampoline(w)
  \/ \E w \in Workers : FetchQueue(w)
  \/ \E w \in Workers : WorkerLoop(w)
  \/ \E w \in Workers : WorkerAvailable(w)
  \/ \E w \in Workers : WorkerWaitPop(w)
  \/ \E w \in Workers : WorkerUnavailable(w)
  \/ \E w \in Workers : WorkerExecute(w)
  \/ \E w \in Workers : WorkerRelease(w)

SpecExtendible == InitExtendible /\ [][NextExtendible]_vars

\* the extendible pool constructed with any numThreads from 1 to NumThreads
InitSizes ==
  /\ QueueInit
  /\ MutexQueueInit("condition")
  /\ ForCInit
  /\ LifecycleInit
  /\ LockInit
  /\ CacheInit
  /\ \E numThreads \in 1..NumThreads : ThreadPoolForCMultiQueues(TRUE, numThreads)
  /\ SchedInit
  /\ submitters = [s \in MainThread |-> IdleSubmitter]
  /\ aborted = FALSE
  /\ submitted = 0

SpecSizes == InitSizes /\ [][NextExtendible]_vars

(***************************************************************************)
(* SpecRunning: the pool while it is running (no shutdown is requested);   *)
(* the caller also waits for its tasks.  Every thread that can take a step *)
(* eventually takes one (the OS schedules every runnable thread).          *)
(***************************************************************************)
NextRunning ==
  \/ \E s \in Submitters : submitAndDetach(s)
  \/ \E s \in Submitters, li \in LocalityIslands : submitAndDetachLi(s, li)
  \/ \E s \in Submitters : GetTask(s)
  \/ \E s \in Submitters : SetFunction(s)
  \/ \E s \in Submitters : Push(s)
  \/ \E s \in Submitters : ExpandPool(s)
  \/ \E s \in Submitters : IncrementLocality(s)
  \/ \E s \in Submitters, t \in Tasks : LockWait(s, t)
  \/ \E s \in Submitters : LockAcquire(s)
  \/ \E w \in Workers : Trampoline(w)
  \/ \E w \in Workers : FetchQueue(w)
  \/ \E w \in Workers : WorkerLoop(w)
  \/ \E w \in Workers : WorkerAvailable(w)
  \/ \E w \in Workers : WorkerWaitPop(w)
  \/ \E w \in Workers : WorkerUnavailable(w)
  \/ \E w \in Workers : WorkerExecute(w)
  \/ \E w \in Workers : WorkerRelease(w)

\* a step of a thread that is inside a call or of a worker (all but the
\* caller's decisions to submit or to wait)
Progress ==
  \/ \E s \in MainThread : SubmitterStep(s) \/ LockAcquire(s)
  \/ \E w \in 1..NumThreads : WorkerStep(w)

Fairness == WF_vars(Progress)

SpecRunning == Init /\ [][NextRunning]_vars /\ Fairness

(***************************************************************************)
(* Scheduler.  find_best_pu reads and writes history_ without a lock, so   *)
(* each read and each write of an accumulated_work is a step of its own.   *)
(***************************************************************************)
NumPUs == Len(PU_ID)

\* size_t arithmetic
SizeT(x) == x % (SIZE_MAX + 1)

\* weight * arch_.max_pu_strength / pu->get_power(), for the PU at index i
\* variant: the weight is not normalized by the PU's strength
normalized_raw(weight, i) == weight
normalized(weight, i) == SizeT(weight * max_pu_strength) \div PU_POWER[i]

\* find_best_pu's locals before the loop
loop_begin ==
  [k |-> 1, best_hist |-> 0, best_pu |-> 0, lowest_work |-> SIZE_MAX]

\* one iteration of the loop over history_, at index l.k, where work is the
\* accumulated_work read from that element
\* variant: a later element with the same total work replaces the best one
loop_step_last(l, work, weight) ==
  LET total_work == SizeT(work + normalized(weight, l.k))
  IN  IF total_work <= l.lowest_work
      THEN [k |-> l.k + 1, best_hist |-> l.k, best_pu |-> PU_ID[l.k],
            lowest_work |-> total_work]
      ELSE [l EXCEPT !.k = @ + 1]

loop_step(l, work, weight) ==
  LET total_work == SizeT(work + normalized(weight, l.k))
  IN  IF total_work < l.lowest_work
      THEN [k |-> l.k + 1, best_hist |-> l.k, best_pu |-> PU_ID[l.k],
            lowest_work |-> total_work]
      ELSE [l EXCEPT !.k = @ + 1]

\* best_hist->accumulated_work += weight * max_pu_strength / power, where
\* work is the value read
add_work(work, weight, i) == SizeT(work + normalized(weight, i))

\* the static round robin: the id returned and the next last_cpu
round_robin_ret(cpu) == IF cpu = LAST_CPU THEN FIRST_CPU ELSE cpu

\* trueHistory[(ret - 20) / 2], as an index of the model (from 1)
trueHistory_index(ret) == (ret - FIRST_CPU) \div 2 + 1

Locals(s) ==
  [k |-> submitters[s].k, best_hist |-> submitters[s].best_hist,
   best_pu |-> submitters[s].best_pu, lowest_work |-> submitters[s].lowest_work]

\* Scheduler::submitAndDetach(f, args, weight, island) calls
\* find_best_pu(1000 * weight)
SchedSubmitAndDetach(s, w) ==
  /\ ~aborted /\ dtor.pc = "alive"
  /\ submitters[s].pc = "idle"
  /\ submitted < MaxTasks
  /\ submitted' = submitted + 1
  /\ g_weights' = Append(g_weights, w)
  /\ submitters' = [submitters EXCEPT
       ![s].pc = "loop", ![s].via = "sched", ![s].args = submitted + 1,
       ![s].weight = SizeT(GRANULARITY * w),
       ![s].k = loop_begin.k, ![s].best_hist = loop_begin.best_hist,
       ![s].best_pu = loop_begin.best_pu, ![s].lowest_work = loop_begin.lowest_work,
       ![s].g_history = history_, ![s].g_weight = w]
  /\ UNCHANGED <<extraVars, lifecycle, mutexVars, forCVars, queueVars, poolVars, aborted, history_, trueHistory, last_cpu>>

\* for (auto& history_element : history_) { ... }
FindBestPuLoop(s) ==
  /\ ~aborted
  /\ submitters[s].pc = "loop"
  /\ LET l == loop_step(Locals(s), history_[submitters[s].k], submitters[s].weight)
     IN  submitters' = [submitters EXCEPT
           ![s].k = l.k, ![s].best_hist = l.best_hist, ![s].best_pu = l.best_pu,
           ![s].lowest_work = l.lowest_work,
           ![s].pc = IF l.k > NumPUs THEN "read_work" ELSE "loop"]
  /\ UNCHANGED <<extraVars, lifecycle, mutexVars, forCVars, queueVars, poolVars, aborted, schedVars, submitted>>

\* the read of best_hist->accumulated_work += ...; best_hist is still null
\* when no element was below lowest_work
ReadWork(s) ==
  /\ ~aborted
  /\ submitters[s].pc = "read_work"
  /\ IF submitters[s].best_hist = 0
     THEN aborted' = TRUE /\ UNCHANGED submitters
     ELSE /\ submitters' = [submitters EXCEPT ![s].pc = "write_work",
                              ![s].sum = history_[submitters[s].best_hist]]
          /\ UNCHANGED aborted
  /\ UNCHANGED <<extraVars, lifecycle, mutexVars, forCVars, queueVars, poolVars, schedVars, submitted>>

\* the write of best_hist->accumulated_work += ...
WriteWork(s) ==
  /\ ~aborted
  /\ submitters[s].pc = "write_work"
  /\ history_' = [history_ EXCEPT ![submitters[s].best_hist] =
                    add_work(submitters[s].sum, submitters[s].weight, submitters[s].best_hist)]
  /\ submitters' = [submitters EXCEPT ![s].pc = "round_robin", ![s].sum = 0]
  /\ UNCHANGED <<extraVars, lifecycle, mutexVars, forCVars, queueVars, poolVars, aborted, trueHistory, last_cpu, g_weights, submitted>>

\* static last_cpu ...; trueHistory[(ret - 20)/2].accumulated_work += weight;
\* return ret.  An index past the end of trueHistory writes outside the
\* vector: the write is to memory the model does not hold, or the process
\* ends.  Then pool_.submitAndDetach(f, args, best_core) is entered.
RoundRobin(s) ==
  /\ ~aborted
  /\ submitters[s].pc = "round_robin"
  /\ LET ret == round_robin_ret(last_cpu)
         i == trueHistory_index(ret)
     IN  /\ last_cpu' = ret + 2
         /\ submitters' = [submitters EXCEPT ![s].pc = "getTask", ![s].ret = ret,
                             ![s].li = ret]
         /\ \E crash \in BOOLEAN :
              IF i \in DOMAIN trueHistory
              THEN /\ ~crash
                   /\ trueHistory' = [trueHistory EXCEPT ![i] = SizeT(@ + submitters[s].weight)]
                   /\ UNCHANGED aborted
              ELSE /\ aborted' = crash
                   /\ UNCHANGED trueHistory
  /\ UNCHANGED <<extraVars, lifecycle, mutexVars, forCVars, queueVars, poolVars, history_, g_weights, submitted>>

\* return best_core
SchedReturn(s) ==
  /\ ~aborted
  /\ submitters[s].pc = "sched_return"
  /\ submitters' = [submitters EXCEPT ![s] =
       [IdleSubmitter EXCEPT !.mine = submitters[s].mine]]
  /\ UNCHANGED <<extraVars, lifecycle, mutexVars, forCVars, queueVars, poolVars, aborted, schedVars, submitted>>

(***************************************************************************)
(* SpecPoolConc: two threads submit to a running pool at the same time.    *)
(***************************************************************************)
NextPoolConc ==
  \/ \E s \in Submitters, li \in 0..(NumThreads - 1) : submitAndDetachLi(s, li)
  \/ \E s \in Submitters : GetTask(s)
  \/ \E s \in Submitters : SetFunction(s)
  \/ \E s \in Submitters : Push(s)
  \/ \E s \in Submitters : ExpandPool(s)
  \/ \E w \in Workers : Trampoline(w)
  \/ \E w \in Workers : FetchQueue(w)
  \/ \E w \in Workers : WorkerLoop(w)
  \/ \E w \in Workers : WorkerAvailable(w)
  \/ \E w \in Workers : WorkerWaitPop(w)
  \/ \E w \in Workers : WorkerUnavailable(w)
  \/ \E w \in Workers : WorkerExecute(w)
  \/ \E w \in Workers : WorkerRelease(w)

(***************************************************************************)
(* SpecSched: one thread submits through the scheduler                     *)
(* (tests/pool/variableSizeTasksC.cpp).  SpecSchedConc: two threads do.    *)
(***************************************************************************)
NextSched ==
  \/ \E s \in Submitters, w \in Weights : SchedSubmitAndDetach(s, w)
  \/ \E s \in Submitters : FindBestPuLoop(s)
  \/ \E s \in Submitters : ReadWork(s)
  \/ \E s \in Submitters : WriteWork(s)
  \/ \E s \in Submitters : RoundRobin(s)
  \/ \E s \in Submitters : GetTask(s)
  \/ \E s \in Submitters : SetFunction(s)
  \/ \E s \in Submitters : Push(s)
  \/ \E s \in Submitters : ExpandPool(s)
  \/ \E s \in Submitters : SchedReturn(s)
  \/ \E w \in Workers : Trampoline(w)
  \/ \E w \in Workers : FetchQueue(w)
  \/ \E w \in Workers : WorkerLoop(w)
  \/ \E w \in Workers : WorkerAvailable(w)
  \/ \E w \in Workers : WorkerWaitPop(w)
  \/ \E w \in Workers : WorkerUnavailable(w)
  \/ \E w \in Workers : WorkerExecute(w)
  \/ \E w \in Workers : WorkerRelease(w)

SpecSched == Init /\ [][NextSched]_vars

\* The scheduler after 182539 submissions of weight 10, made one at a time
\* (37 rounds of 4857 submissions, each of which raises both histories by
\* 28570000, then 2830 more): the histories are close to SIZE_MAX, the round
\* robin has returned 20, 22 and 24 45635 times each.  The pool is taken as
\* new: the scheduler reads nothing of it.
FullHistory == <<1073740000, 1073732025>>

InitFull ==
  /\ QueueInit
  /\ MutexQueueInit("condition")
  /\ ForCInit
  /\ LifecycleInit
  /\ LockInit
  /\ CacheInit
  /\ PoolInit(FALSE)
  /\ history_ = FullHistory
  /\ trueHistory = [i \in DOMAIN PU_ID |-> 456350000]
  /\ last_cpu = FIRST_CPU + 6
  /\ g_weights = <<>>
  /\ submitters = [s \in MainThread |-> IdleSubmitter]
  /\ aborted = FALSE
  /\ submitted = 0

SpecSchedFull == InitFull /\ [][NextSched]_vars

\* The scheduler after 912697 submissions of one and the same weight,
\* EqualWeight, made one at a time (each costs 2000 on the first PU and 2857
\* on the second): the histories are close to SIZE_MAX, the round robin has
\* returned 20 228175 times and 22 228174 times.
EqualWeight == 2
EqualHistory == <<1073740000, 1073737739>>

InitEqual ==
  /\ QueueInit
  /\ MutexQueueInit("condition")
  /\ ForCInit
  /\ LifecycleInit
  /\ LockInit
  /\ CacheInit
  /\ PoolInit(FALSE)
  /\ history_ = EqualHistory
  /\ trueHistory = <<456350000, 456348000>>
  /\ last_cpu = FIRST_CPU + 2
  /\ g_weights = <<>>
  /\ submitters = [s \in MainThread |-> IdleSubmitter]
  /\ aborted = FALSE
  /\ submitted = 0

SpecSchedEqual == InitEqual /\ [][NextSched]_vars

InitConc ==
  /\ QueueInit
  /\ MutexQueueInit("condition")
  /\ ForCInit
  /\ LifecycleInit
  /\ LockInit
  /\ CacheInit
  /\ PoolInit(FALSE)
  /\ SchedInit
  /\ submitters = [s \in TwoCallers |-> IdleSubmitter]
  /\ aborted = FALSE
  /\ submitted = 0

\* the callers' steps; the workers are not scheduled before the calls return
NextSchedConc ==
  \/ \E s \in Submitters, w \in Weights : SchedSubmitAndDetach(s, w)
  \/ \E s \in Submitters : FindBestPuLoop(s)
  \/ \E s \in Submitters : ReadWork(s)
  \/ \E s \in Submitters : WriteWork(s)
  \/ \E s \in Submitters : RoundRobin(s)
  \/ \E s \in Submitters : GetTask(s)
  \/ \E s \in Submitters : SetFunction(s)
  \/ \E s \in Submitters : Push(s)
  \/ \E s \in Submitters : ExpandPool(s)
  \/ \E s \in Submitters : SchedReturn(s)

SpecSchedConc == InitConc /\ [][NextSchedConc]_vars

SpecPoolConc == InitConc /\ [][NextPoolConc]_vars

(***************************************************************************)
(* Calls on the spin lock queue (tests/queue/work2.cpp: some threads push, *)
(* the others pop).                                                        *)
(***************************************************************************)
QueueOps == {"push", "tryPop", "waitPop", "size"}

PushOps == {"push", "waitPush"}

notQueue == <<poolVars, submitters, aborted, schedVars, submitted, forCVars,
             mutexVars, lifecycle, extraVars>>

\* a thread enters push(value), tryPop(out), waitPop(out) or size(); the
\* values a thread pushes are numbered in the order it pushes them
SpinCall(t, op) ==
  /\ callers[t].pc = "idle"
  /\ op \in PushOps => Len(g_spin_pushed) + Cardinality({u \in Callers :
                      callers[u].pc # "idle" /\ callers[u].op \in PushOps}) < MaxPushes
  /\ op \in PushOps => callers[t].pushes < MaxPushes
  /\ callers' = [callers EXCEPT ![t].pc = "lock", ![t].op = op,
       ![t].value = IF op \in PushOps THEN [p |-> t, n |-> callers[t].pushes + 1]
                    ELSE NoValue,
       ![t].pushes = IF op \in PushOps THEN @ + 1 ELSE @]
  /\ UNCHANGED <<notQueue, spinQueue, g_spin_pushed, g_spin_popped>>

\* pthread_spin_lock(&this->spinLock)
pthread_spin_lock(t) ==
  /\ callers[t].pc = "lock"
  /\ spinQueue.spinLock = 0
  /\ spinQueue' = [spinQueue EXCEPT !.spinLock = t]
  /\ callers' = [callers EXCEPT ![t].pc = callers[t].op]
  /\ UNCHANGED <<notQueue, g_spin_pushed, g_spin_popped>>

\* push: internal_push(value); unlock
SpinPush(t) ==
  /\ callers[t].pc = "push"
  /\ spinQueue' = spin_unlock(spin_internal_push(spinQueue, callers[t].value))
  /\ g_spin_pushed' = Append(g_spin_pushed, callers[t].value)
  /\ callers' = [callers EXCEPT ![t].pc = "return"]
  /\ UNCHANGED <<notQueue, g_spin_popped>>

\* variant: tryPop looks only at m_queue.empty() and pops from a queue that
\* was invalidated
SpinTryPop_valid(t) ==
  /\ callers[t].pc = "tryPop"
  /\ IF spinQueue.m_queue = <<>>
     THEN /\ spinQueue' = spin_unlock(spinQueue)
          /\ callers' = [callers EXCEPT ![t].pc = "return", ![t].ret = FALSE]
          /\ UNCHANGED g_spin_popped
     ELSE /\ spinQueue' = spin_unlock(spin_internal_pop(spinQueue))
          /\ callers' = [callers EXCEPT ![t].pc = "return", ![t].ret = TRUE,
                           ![t].out = spin_front(spinQueue)]
          /\ g_spin_popped' = Append(g_spin_popped, spin_front(spinQueue))
  /\ UNCHANGED <<notQueue, g_spin_pushed>>

\* tryPop: if (m_queue.empty() || !m_valid) { unlock; return false; }
\* internal_pop(out); unlock; return true
SpinTryPop(t) ==
  /\ callers[t].pc = "tryPop"
  /\ IF spinQueue.m_queue = <<>> \/ ~spinQueue.m_valid
     THEN /\ spinQueue' = spin_unlock(spinQueue)
          /\ callers' = [callers EXCEPT ![t].pc = "return", ![t].ret = FALSE]
          /\ UNCHANGED g_spin_popped
     ELSE /\ spinQueue' = spin_unlock(spin_internal_pop(spinQueue))
          /\ callers' = [callers EXCEPT ![t].pc = "return", ![t].ret = TRUE,
                           ![t].out = spin_front(spinQueue)]
          /\ g_spin_popped' = Append(g_spin_popped, spin_front(spinQueue))
  /\ UNCHANGED <<notQueue, g_spin_pushed>>

\* waitPop: returns false when the queue is not valid; while it is valid and
\* empty, unlocks and locks again; otherwise internal_pop(out); unlock;
\* return true
SpinWaitPop(t) ==
  /\ callers[t].pc = "waitPop"
  /\ IF ~spinQueue.m_valid
     THEN /\ spinQueue' = spin_unlock(spinQueue)
          /\ callers' = [callers EXCEPT ![t].pc = "return", ![t].ret = FALSE]
          /\ UNCHANGED g_spin_popped
     ELSE IF spinQueue.m_queue = <<>>
     THEN /\ spinQueue' = spin_unlock(spinQueue)
          /\ callers' = [callers EXCEPT ![t].pc = "lock"]
          /\ UNCHANGED g_spin_popped
     ELSE /\ spinQueue' = spin_unlock(spin_internal_pop(spinQueue))
          /\ callers' = [callers EXCEPT ![t].pc = "return", ![t].ret = TRUE,
                           ![t].out = spin_front(spinQueue)]
          /\ g_spin_popped' = Append(g_spin_popped, spin_front(spinQueue))
  /\ UNCHANGED <<notQueue, g_spin_pushed>>

\* size: auto s = m_queue.size(); unlock; return s
SpinSize(t) ==
  /\ callers[t].pc = "size"
  /\ spinQueue' = spin_unlock(spinQueue)
  /\ callers' = [callers EXCEPT ![t].pc = "return", ![t].s = spin_size(spinQueue)]
  /\ UNCHANGED <<notQueue, g_spin_pushed, g_spin_popped>>

\* waitPush: while the queue is valid and holds maxSize values, unlocks and
\* locks again; returns false when the queue is not valid; otherwise
\* internal_push(value); unlock; return true
SpinWaitPush(t) ==
  /\ callers[t].pc = "waitPush"
  /\ IF spin_size(spinQueue) >= MaxSize /\ spinQueue.m_valid
     THEN /\ spinQueue' = spin_unlock(spinQueue)
          /\ callers' = [callers EXCEPT ![t].pc = "lock"]
          /\ UNCHANGED g_spin_pushed
     ELSE IF ~spinQueue.m_valid
     THEN /\ spinQueue' = spin_unlock(spinQueue)
          /\ callers' = [callers EXCEPT ![t].pc = "return", ![t].ret = FALSE]
          /\ UNCHANGED g_spin_pushed
     ELSE /\ spinQueue' = spin_unlock(spin_internal_push(spinQueue, callers[t].value))
          /\ callers' = [callers EXCEPT ![t].pc = "return", ![t].ret = TRUE]
          /\ g_spin_pushed' = Append(g_spin_pushed, callers[t].value)
  /\ UNCHANGED <<notQueue, g_spin_popped>>

\* invalidate: if (!m_valid) { unlock; return; } m_valid = false; unlock
SpinInvalidate(t) ==
  /\ callers[t].pc = "invalidate"
  /\ spinQueue' = spin_unlock(invalidate(spinQueue))
  /\ callers' = [callers EXCEPT ![t].pc = "return"]
  /\ UNCHANGED <<notQueue, g_spin_pushed, g_spin_popped>>

\* the call returns to the thread, which uses the result and drops it
SpinReturn(t) ==
  /\ callers[t].pc = "return"
  /\ callers' = [callers EXCEPT ![t] = [IdleCaller EXCEPT !.pushes = callers[t].pushes]]
  /\ UNCHANGED <<notQueue, spinQueue, g_spin_pushed, g_spin_popped>>

NextQueue ==
  \/ \E t \in Callers, op \in QueueOps : SpinCall(t, op)
  \/ \E t \in Callers : pthread_spin_lock(t)
  \/ \E t \in Callers : SpinPush(t)
  \/ \E t \in Callers : SpinTryPop(t)
  \/ \E t \in Callers : SpinWaitPop(t)
  \/ \E t \in Callers : SpinSize(t)
  \/ \E t \in Callers : SpinReturn(t)

SpecQueue == Init /\ [][NextQueue]_vars

(***************************************************************************)
(* ThreadPoolForC::submitAndDetach and ThreadPoolForC::worker              *)
(***************************************************************************)
notForC == <<poolVars, submitters, aborted, schedVars, submitted, queueVars,
            mutexVars, lifecycle, extraVars>>

\* a thread enters submitAndDetach(f, args)
ForCSubmitAndDetach(s) ==
  /\ ~aborted /\ ~poolForC.m_done
  /\ forCSubmitters[s].pc = "idle"
  /\ g_forC.submitted < MaxForCTasks
  /\ forCSubmitters' = [forCSubmitters EXCEPT ![s].pc = "fetch",
                          ![s].args = g_forC.submitted + 1]
  /\ g_forC' = [g_forC EXCEPT !.submitted = @ + 1]
  /\ UNCHANGED <<notForC, poolForC, forCWorkers>>

\* "Fetch the memory", under memoryPoolLock: the scan, and a new
\* ThreadCTask(poolSize) when cTask is still null after it
ForCFetch(s) ==
  /\ ~aborted
  /\ forCSubmitters[s].pc = "fetch"
  /\ LET avail == poolForC.memoryPoolAvailability
         poolSize == Len(avail)
         found == scan_cTask(avail, poolSize)
         cTask == IF found = 0 THEN poolSize + 1 ELSE found
         outstanding == g_forC.outstanding + 1
     IN  /\ poolForC' = IF found = 0
              THEN [poolForC EXCEPT !.memoryPool = Append(@, NoTask),
                                    !.memoryPoolAvailability = Append(avail, FALSE)]
              ELSE [poolForC EXCEPT !.memoryPoolAvailability = scan_availability(avail)]
         /\ forCSubmitters' = [forCSubmitters EXCEPT ![s].pc = "setFunction",
                                 ![s].cTask = cTask]
         /\ g_forC' = [g_forC EXCEPT
              !.holders = IF found = 0 THEN Append(@, {forCSubmitters[s].args})
                          ELSE [@ EXCEPT ![cTask] = @ \cup {forCSubmitters[s].args}],
              !.outstanding = outstanding,
              !.peak = IF outstanding > @ THEN outstanding ELSE @]
  /\ UNCHANGED <<notForC, forCWorkers>>

\* cTask->setFunction(f, args)
ForCSetFunction(s) ==
  /\ ~aborted
  /\ forCSubmitters[s].pc = "setFunction"
  /\ poolForC' = [poolForC EXCEPT !.memoryPool[forCSubmitters[s].cTask] =
                    forCSubmitters[s].args]
  /\ forCSubmitters' = [forCSubmitters EXCEPT ![s].pc = "push"]
  /\ UNCHANGED <<notForC, forCWorkers, g_forC>>

\* this->cWorkQueue.push(cTask); expandPool() (the pool is not extendible);
\* return
ForCPush(s) ==
  /\ ~aborted
  /\ forCSubmitters[s].pc = "push"
  /\ poolForC' = [poolForC EXCEPT !.cWorkQueue =
                    internal_push(@, forCSubmitters[s].cTask)]
  /\ forCSubmitters' = [forCSubmitters EXCEPT ![s] = IdleForCSubmitter]
  /\ UNCHANGED <<notForC, forCWorkers, g_forC>>

\* while(!m_done)
ForCWorkerLoop(w) ==
  /\ ~aborted
  /\ forCWorkers[w].pc = "loop"
  /\ forCWorkers' = [forCWorkers EXCEPT ![w].pc =
                       IF poolForC.m_done THEN "finished" ELSE "waitPop"]
  /\ UNCHANGED <<notForC, poolForC, forCSubmitters, g_forC>>

\* if (this->cWorkQueue.waitPop(pTask))
ForCWorkerWaitPop(w) ==
  /\ ~aborted
  /\ forCWorkers[w].pc = "waitPop"
  /\ waitPop_ready(poolForC.cWorkQueue)
  /\ IF waitPop_result(poolForC.cWorkQueue)
     THEN /\ poolForC' = [poolForC EXCEPT !.cWorkQueue = internal_pop(@)]
          /\ forCWorkers' = [forCWorkers EXCEPT ![w].pc = "execute",
                               ![w].pTask = front(poolForC.cWorkQueue)]
     ELSE /\ forCWorkers' = [forCWorkers EXCEPT ![w].pc = "loop"]
          /\ UNCHANGED poolForC
  /\ UNCHANGED <<notForC, forCSubmitters, g_forC>>

\* pTask->execute()
ForCWorkerExecute(w) ==
  /\ ~aborted
  /\ forCWorkers[w].pc = "execute"
  /\ forCWorkers' = [forCWorkers EXCEPT ![w].pc = "release"]
  /\ UNCHANGED <<notForC, poolForC, forCSubmitters, g_forC>>

\* "Set the task memory as available", under memoryPoolLock, with its two
\* assertions
ForCWorkerRelease(w) ==
  /\ ~aborted
  /\ forCWorkers[w].pc = "release"
  /\ LET taskID == forCWorkers[w].pTask
     IN  IF taskID > Len(poolForC.memoryPool) \/ poolForC.memoryPoolAvailability[taskID]
         THEN /\ aborted' = TRUE
              /\ UNCHANGED <<poolForC, forCWorkers, g_forC>>
         ELSE /\ poolForC' = [poolForC EXCEPT !.memoryPoolAvailability[taskID] = TRUE]
              /\ forCWorkers' = [forCWorkers EXCEPT ![w] = NewForCWorker]
              /\ g_forC' = [g_forC EXCEPT
                   !.holders[taskID] = @ \ {poolForC.memoryPool[taskID]},
                   !.outstanding = @ - 1]
              /\ UNCHANGED aborted
  /\ UNCHANGED <<poolVars, submitters, schedVars, submitted, queueVars, mutexVars,
               forCSubmitters, lifecycle, extraVars>>

NextForC ==
  \/ \E s \in TwoCallers : ForCSubmitAndDetach(s)
  \/ \E s \in TwoCallers : ForCFetch(s)
  \/ \E s \in TwoCallers : ForCSetFunction(s)
  \/ \E s \in TwoCallers : ForCPush(s)
  \/ \E w \in 1..NumThreads : ForCWorkerLoop(w)
  \/ \E w \in 1..NumThreads : ForCWorkerWaitPop(w)
  \/ \E w \in 1..NumThreads : ForCWorkerExecute(w)
  \/ \E w \in 1..NumThreads : ForCWorkerRelease(w)

SpecForC == Init /\ [][NextForC]_vars

(***************************************************************************)
(* The operations of ThreadSafeMutexQueue and ThreadSafeMutexQueueSleep    *)
(***************************************************************************)
notMutex == <<poolVars, submitters, aborted, schedVars, submitted, queueVars,
              forCVars, lifecycle, extraVars>>

\* a thread enters push(value), waitPush(value, MaxSize), tryPop(out),
\* waitPop(out) or invalidate(); the values are numbered as they are made
MutexCall(t, op) ==
  /\ mutexQueue.kind \in MutexQueueKinds
  /\ mutexCallers[t].pc = "idle"
  /\ op \in {"push", "waitPush"} => g_mutex.issued < MaxPushes
  /\ mutexCallers' = [mutexCallers EXCEPT ![t].pc = "lock", ![t].op = op,
       ![t].value = IF op \in {"push", "waitPush"} THEN g_mutex.issued + 1 ELSE 0]
  /\ g_mutex' = [g_mutex EXCEPT
       !.issued = IF op \in {"push", "waitPush"} THEN @ + 1 ELSE @]
  /\ UNCHANGED <<notMutex, mutexQueue>>

\* std::lock_guard / std::unique_lock lock{m_mutex}, also when a wait ends
MutexLock(t) ==
  /\ mutexCallers[t].pc = "lock"
  /\ mutexQueue.m_mutex = 0
  /\ mutexQueue' = [mutexQueue EXCEPT !.m_mutex = t]
  /\ mutexCallers' = [mutexCallers EXCEPT ![t].pc = mutexCallers[t].op]
  /\ UNCHANGED <<notMutex, g_mutex>>

\* push: internal_pushAndNotify(value), which notifies empty_condition
MutexPush(t) ==
  /\ mutexCallers[t].pc = "push"
  /\ mutexQueue' = mutex_unlock(internal_push(mutexQueue, mutexCallers[t].value))
  /\ \E n \in notify_one_choices(mutexCallers, empty_condition_wait) :
       mutexCallers' = [notify_one(mutexCallers, empty_condition_wait, n) EXCEPT
         ![t] = returns(@, mutexQueue, mutexQueue', TRUE, 0)]
  /\ g_mutex' = [g_mutex EXCEPT !.pushed = Append(@, mutexCallers[t].value)]
  /\ UNCHANGED notMutex

\* variant: waitPush waits only when the queue holds more than maxSize values
MutexWaitPush_over(t) ==
  /\ mutexCallers[t].pc = "waitPush"
  /\ IF size(mutexQueue) > MaxSize /\ mutexQueue.m_valid
     THEN /\ mutexQueue' = mutex_unlock(mutexQueue)
          /\ mutexCallers' = [mutexCallers EXCEPT ![t].pc = "wait_full"]
          /\ UNCHANGED g_mutex
     ELSE IF ~mutexQueue.m_valid
     THEN /\ mutexQueue' = mutex_unlock(mutexQueue)
          /\ mutexCallers' = [mutexCallers EXCEPT
               ![t] = returns(@, mutexQueue, mutexQueue, FALSE, 0)]
          /\ UNCHANGED g_mutex
     ELSE /\ mutexQueue' =
               mutex_unlock(internal_push(mutexQueue, mutexCallers[t].value))
          /\ \E n \in notify_one_choices(mutexCallers, empty_condition_wait) :
               mutexCallers' =
                 [notify_one(mutexCallers, empty_condition_wait, n) EXCEPT
                    ![t] = returns(@, mutexQueue, mutexQueue', TRUE, 0)]
          /\ g_mutex' = [g_mutex EXCEPT !.pushed = Append(@, mutexCallers[t].value)]
  /\ UNCHANGED notMutex

\* waitPush: full_condition.wait(lock, size < maxSize || !m_valid);
\* if (!m_valid) return false; internal_pushAndNotify(value); return true
MutexWaitPush(t) ==
  /\ mutexCallers[t].pc = "waitPush"
  /\ IF size(mutexQueue) >= MaxSize /\ mutexQueue.m_valid
     THEN /\ mutexQueue' = mutex_unlock(mutexQueue)
          /\ mutexCallers' = [mutexCallers EXCEPT ![t].pc = "wait_full"]
          /\ UNCHANGED g_mutex
     ELSE IF ~mutexQueue.m_valid
     THEN /\ mutexQueue' = mutex_unlock(mutexQueue)
          /\ mutexCallers' = [mutexCallers EXCEPT
               ![t] = returns(@, mutexQueue, mutexQueue, FALSE, 0)]
          /\ UNCHANGED g_mutex
     ELSE /\ mutexQueue' =
               mutex_unlock(internal_push(mutexQueue, mutexCallers[t].value))
          /\ \E n \in notify_one_choices(mutexCallers, empty_condition_wait) :
               mutexCallers' =
                 [notify_one(mutexCallers, empty_condition_wait, n) EXCEPT
                    ![t] = returns(@, mutexQueue, mutexQueue', TRUE, 0)]
          /\ g_mutex' = [g_mutex EXCEPT !.pushed = Append(@, mutexCallers[t].value)]
  /\ UNCHANGED notMutex

\* tryPop: if (m_queue.empty() || !m_valid) return false;
\* internal_popAndNotify(out), which notifies full_condition; return true
MutexTryPop(t) ==
  /\ mutexCallers[t].pc = "tryPop"
  /\ IF mutexQueue.m_queue = <<>> \/ ~mutexQueue.m_valid
     THEN /\ mutexQueue' = mutex_unlock(mutexQueue)
          /\ mutexCallers' = [mutexCallers EXCEPT
               ![t] = returns(@, mutexQueue, mutexQueue, FALSE, 0)]
          /\ UNCHANGED g_mutex
     ELSE /\ mutexQueue' = mutex_unlock(internal_pop(mutexQueue))
          /\ \E n \in notify_one_choices(mutexCallers, "wait_full") :
               mutexCallers' = [notify_one(mutexCallers, "wait_full", n) EXCEPT
                 ![t] = returns(@, mutexQueue, mutexQueue', TRUE, front(mutexQueue))]
          /\ g_mutex' = [g_mutex EXCEPT !.popped = Append(@, front(mutexQueue))]
  /\ UNCHANGED notMutex

\* waitPop: if (!m_valid) return false; on an empty queue wait for
\* !m_queue.empty() || !m_valid; if (!m_valid) return false;
\* internal_popAndNotify(out); return true
MutexWaitPop(t) ==
  /\ mutexCallers[t].pc = "waitPop"
  /\ IF ~mutexQueue.m_valid
     THEN /\ mutexQueue' = mutex_unlock(mutexQueue)
          /\ mutexCallers' = [mutexCallers EXCEPT
               ![t] = returns(@, mutexQueue, mutexQueue, FALSE, 0)]
          /\ UNCHANGED g_mutex
     ELSE IF mutexQueue.m_queue = <<>>
     THEN /\ mutexQueue' = mutex_unlock(mutexQueue)
          /\ mutexCallers' = [mutexCallers EXCEPT
               ![t].pc = IF mutexQueue.kind = "sleep"
                         THEN internal_waitWhileEmpty ELSE empty_condition_wait]
          /\ UNCHANGED g_mutex
     ELSE /\ mutexQueue' = mutex_unlock(internal_pop(mutexQueue))
          /\ \E n \in notify_one_choices(mutexCallers, "wait_full") :
               mutexCallers' = [notify_one(mutexCallers, "wait_full", n) EXCEPT
                 ![t] = returns(@, mutexQueue, mutexQueue', TRUE, front(mutexQueue))]
          /\ g_mutex' = [g_mutex EXCEPT !.popped = Append(@, front(mutexQueue))]
  /\ UNCHANGED notMutex

\* invalidate: if (!m_valid) return; m_valid = false;
\* empty_condition.notify_all(); full_condition.notify_all()
MutexInvalidate(t) ==
  /\ mutexCallers[t].pc = "invalidate"
  /\ mutexQueue' = mutex_unlock(invalidate(mutexQueue))
  /\ mutexCallers' =
       [(IF mutexQueue.m_valid
         THEN notify_all(notify_all(mutexCallers, empty_condition_wait), "wait_full")
         ELSE mutexCallers) EXCEPT
          ![t] = returns(@, mutexQueue, mutexQueue, FALSE, 0)]
  /\ UNCHANGED <<notMutex, g_mutex>>

\* a wait on a condition variable may end without a notification
MutexSpuriousWakeup(t) ==
  /\ mutexCallers[t].pc \in {empty_condition_wait, "wait_full"}
  /\ mutexCallers' = [mutexCallers EXCEPT ![t].pc = "lock"]
  /\ UNCHANGED <<notMutex, mutexQueue, g_mutex>>

\* the call returns to the thread, which uses the result and drops it
MutexReturn(t) ==
  /\ mutexCallers[t].pc = "return"
  /\ mutexCallers' = [mutexCallers EXCEPT ![t] = IdleMutexCaller]
  /\ UNCHANGED <<notMutex, mutexQueue, g_mutex>>

\* one queue of one of the three kinds, with the threads that call it
InitQueues ==
  /\ QueueInit
  /\ \E kind \in QueueKinds : MutexQueueInit(kind)
  /\ ForCInit
  /\ LifecycleInit
  /\ LockInit
  /\ CacheInit
  /\ PoolInit(FALSE)
  /\ SchedInit
  /\ submitters = [s \in MainThread |-> IdleSubmitter]
  /\ aborted = FALSE
  /\ submitted = 0

SpinKind == mutexQueue.kind = "spin"

NextQueues ==
  \/ \E t \in Callers : \E op \in QueueRole(t) : MutexCall(t, op)
  \/ \E t \in Callers : MutexLock(t)
  \/ \E t \in Callers : MutexPush(t)
  \/ \E t \in Callers : MutexWaitPush(t)
  \/ \E t \in Callers : MutexTryPop(t)
  \/ \E t \in Callers : MutexWaitPop(t)
  \/ \E t \in Callers : MutexInvalidate(t)
  \/ \E t \in Callers : MutexSpuriousWakeup(t)
  \/ \E t \in Callers : MutexReturn(t)
  \/ \E t \in Callers : \E op \in QueueRole(t) : SpinKind /\ SpinCall(t, op)
  \/ \E t \in Callers : SpinKind /\ pthread_spin_lock(t)
  \/ \E t \in Callers : SpinKind /\ SpinPush(t)
  \/ \E t \in Callers : SpinKind /\ SpinWaitPush(t)
  \/ \E t \in Callers : SpinKind /\ SpinTryPop(t)
  \/ \E t \in Callers : SpinKind /\ SpinWaitPop(t)
  \/ \E t \in Callers : SpinKind /\ SpinInvalidate(t)
  \/ \E t \in Callers : SpinKind /\ SpinReturn(t)

SpecQueues == InitQueues /\ [][NextQueues]_vars

\* the threads of a bounded queue: every insertion is a waitPush with MaxSize
BoundedRole(t) ==
  CASE t = 1 -> {"waitPush", "invalidate"}
    [] t = 2 -> {"tryPop", "waitPop"}
    [] OTHER -> {"waitPop", "waitPush"}

NextBounded ==
  \/ \E t \in Callers : \E op \in BoundedRole(t) : MutexCall(t, op)
  \/ \E t \in Callers : MutexLock(t)
  \/ \E t \in Callers : MutexWaitPush(t)
  \/ \E t \in Callers : MutexTryPop(t)
  \/ \E t \in Callers : MutexWaitPop(t)
  \/ \E t \in Callers : MutexInvalidate(t)
  \/ \E t \in Callers : MutexSpuriousWakeup(t)
  \/ \E t \in Callers : MutexReturn(t)
  \/ \E t \in Callers : \E op \in BoundedRole(t) : SpinKind /\ SpinCall(t, op)
  \/ \E t \in Callers : SpinKind /\ pthread_spin_lock(t)
  \/ \E t \in Callers : SpinKind /\ SpinWaitPush(t)
  \/ \E t \in Callers : SpinKind /\ SpinTryPop(t)
  \/ \E t \in Callers : SpinKind /\ SpinWaitPop(t)
  \/ \E t \in Callers : SpinKind /\ SpinInvalidate(t)
  \/ \E t \in Callers : SpinKind /\ SpinReturn(t)

SpecBounded == InitQueues /\ [][NextBounded]_vars

\* the threads of a shutdown: the first fills the queue and invalidates it,
\* the others wait on it
WaiterRole(t) ==
  CASE t = 1 -> {"push", "invalidate"}
    [] t = 2 -> {"waitPop"}
    [] OTHER -> {"waitPop", "waitPush"}

NextWaiters ==
  \/ \E t \in Callers : \E op \in WaiterRole(t) : MutexCall(t, op)
  \/ \E t \in Callers : MutexLock(t)
  \/ \E t \in Callers : MutexPush(t)
  \/ \E t \in Callers : MutexWaitPush(t)
  \/ \E t \in Callers : MutexWaitPop(t)
  \/ \E t \in Callers : MutexInvalidate(t)
  \/ \E t \in Callers : MutexSpuriousWakeup(t)
  \/ \E t \in Callers : MutexReturn(t)
  \/ \E t \in Callers : \E op \in WaiterRole(t) : SpinKind /\ SpinCall(t, op)
  \/ \E t \in Callers : SpinKind /\ pthread_spin_lock(t)
  \/ \E t \in Callers : SpinKind /\ SpinPush(t)
  \/ \E t \in Callers : SpinKind /\ SpinWaitPush(t)
  \/ \E t \in Callers : SpinKind /\ SpinWaitPop(t)
  \/ \E t \in Callers : SpinKind /\ SpinInvalidate(t)
  \/ \E t \in Callers : SpinKind /\ SpinReturn(t)

\* a thread inside a call goes on: the lock is granted to each thread that
\* keeps asking for it, and a notified thread runs again; a wait that nobody
\* notifies need not end
QueueStep(t) ==
  \/ MutexLock(t)
  \/ MutexPush(t)
  \/ MutexWaitPush(t)
  \/ MutexTryPop(t)
  \/ MutexWaitPop(t)
  \/ MutexInvalidate(t)
  \/ MutexReturn(t)
  \/ SpinKind /\ pthread_spin_lock(t)
  \/ SpinKind /\ SpinPush(t)
  \/ SpinKind /\ SpinWaitPush(t)
  \/ SpinKind /\ SpinTryPop(t)
  \/ SpinKind /\ SpinWaitPop(t)
  \/ SpinKind /\ SpinInvalidate(t)
  \/ SpinKind /\ SpinReturn(t)

QueuesFairness == \A t \in Callers : SF_vars(QueueStep(t))

SpecWaiters == InitQueues /\ [][NextWaiters]_vars /\ QueuesFairness

(***************************************************************************)
(* Construction, appendCodeToDeconstructor, destroy() and the destructors  *)
(***************************************************************************)
notLife == <<poolVars, submitters, aborted, schedVars, submitted, queueVars,
             forCVars, mutexVars, extraVars>>

\* the constructor: NumThreads threads with their flags, and the callback
LifeConstruct(cls, code) ==
  /\ lifecycle.pc = "none"
  /\ lifecycle' = [lifecycle EXCEPT !.pc = "alive", !.cls = cls,
       !.codeToExecuteByTheDeconstructor = constructor_code(cls, code),
       !.joinable = [i \in 1..NumThreads |-> TRUE],
       !.deleted = [i \in 1..NumThreads |-> 0],
       !.g_registered = register(code)]
  /\ UNCHANGED notLife

\* appendCodeToDeconstructor(code) on a pool that is not being destroyed
LifeAppend(code) ==
  /\ lifecycle.pc = "alive"
  /\ lifecycle.todo = <<>>
  /\ lifecycle.destroys = 0
  /\ \A i \in DOMAIN lifecycle.g_registered : lifecycle.g_registered[i] # code
  /\ lifecycle' = [lifecycle EXCEPT
       !.codeToExecuteByTheDeconstructor = Append(@, code),
       !.g_registered = Append(@, code)]
  /\ UNCHANGED notLife

\* destroy() is called
LifeDestroy ==
  /\ lifecycle.pc = "alive"
  /\ lifecycle.todo = <<>>
  /\ lifecycle.destroys < MaxDestroys
  /\ lifecycle' = [lifecycle EXCEPT !.todo = destroy_stages(lifecycle.cls)]
  /\ UNCHANGED notLife

\* the pool object is destructed
LifeDestructor ==
  /\ lifecycle.pc = "alive"
  /\ lifecycle.todo = <<>>
  /\ lifecycle' = [lifecycle EXCEPT !.todo = destructor_stages(lifecycle.cls)]
  /\ UNCHANGED notLife

\* while (codeToExecuteByTheDeconstructor.size() > 0) { waitPop(code); code(); }
LifeCallbacks ==
  /\ lifecycle.todo # <<>>
  /\ Head(lifecycle.todo) = "callbacks"
  /\ IF Len(lifecycle.codeToExecuteByTheDeconstructor) > 0
     THEN lifecycle' = [lifecycle EXCEPT
            !.codeToExecuteByTheDeconstructor = Tail(@),
            !.g_ran = Append(@, Head(lifecycle.codeToExecuteByTheDeconstructor))]
     ELSE lifecycle' = [lifecycle EXCEPT !.todo = Tail(@)]
  /\ UNCHANGED notLife

\* m_done = true; the work queue is invalidated; every joinable thread is
\* joined
LifeQuit ==
  /\ lifecycle.todo # <<>>
  /\ Head(lifecycle.todo) = "quit"
  /\ lifecycle' = [lifecycle EXCEPT !.todo = Tail(@), !.m_done = TRUE,
       !.m_valid = FALSE,
       !.joinable = [i \in DOMAIN lifecycle.joinable |-> FALSE]]
  /\ UNCHANGED notLife

\* for (auto flag : threadAvailability) delete flag; the vector keeps the
\* pointers, and deleting a pointer again is undefined: the process may end
\* or go on
LifeDelete ==
  /\ lifecycle.todo # <<>>
  /\ Head(lifecycle.todo) = "delete"
  /\ \E ends \in BOOLEAN :
       IF ends /\ \E i \in DOMAIN lifecycle.deleted : lifecycle.deleted[i] > 0
       THEN lifecycle' = [lifecycle EXCEPT !.pc = "crashed", !.todo = <<>>]
       ELSE lifecycle' = [lifecycle EXCEPT !.todo = Tail(@),
              !.deleted = [i \in DOMAIN lifecycle.deleted |-> lifecycle.deleted[i] + 1]]
  /\ UNCHANGED notLife

\* destroy() returns, or the destructor does
LifeReturn ==
  /\ lifecycle.todo # <<>>
  /\ Head(lifecycle.todo) \in {"return", "dead"}
  /\ lifecycle' =
       IF Head(lifecycle.todo) = "dead"
       THEN [lifecycle EXCEPT !.todo = Tail(@), !.pc = "dead"]
       ELSE [lifecycle EXCEPT !.todo = Tail(@), !.destroys = @ + 1,
              !.g_first = IF lifecycle.destroys = 0
                          THEN <<PoolState(lifecycle)>> ELSE @]
  /\ UNCHANGED notLife

NextLife ==
  \/ \E cls \in PoolClasses, code \in 0..MaxCallbacks : LifeConstruct(cls, code)
  \/ \E code \in 1..MaxCallbacks : LifeAppend(code)
  \/ LifeDestroy
  \/ LifeDestructor
  \/ LifeCallbacks
  \/ LifeQuit
  \/ LifeDelete
  \/ LifeReturn

SpecLife == Init /\ [][NextLife]_vars

\* ---------------------------------------------------------------------------
\* The threads of the two pools run through their lock operations.
\* ---------------------------------------------------------------------------
notLock == <<poolVars, submitters, aborted, schedVars, submitted, queueVars,
             forCVars, mutexVars, lifecycle, cacheVars>>

LockStep(t) == LockProgram(t).steps[lockThreads[t].pc]

\* the step after the last one is the head of the loop, 0 when the function
\* returns
LockAdvance(t) ==
  IF lockThreads[t].pc = Len(LockProgram(t).steps)
  THEN LockProgram(t).loop
  ELSE lockThreads[t].pc + 1

HeldBy(t) == {l \in LockNames : lockOwner[l] = t}

\* the lock a thread is asking for: the one of its lock step, or the mutex
\* that a woken condition wait takes again
Requested(t) ==
  IF lockThreads[t].pc = 0 THEN {}
  ELSE IF LockStep(t).kind = "lock" \/ lockThreads[t].sleeping
       THEN {LockStep(t).lock}
       ELSE {}

\* pthread_spin_lock / lock_guard / unique_lock: returns once the lock is free
AcquireLock(t) ==
  /\ lockThreads[t].pc # 0
  /\ LockStep(t).kind = "lock"
  /\ lockOwner[LockStep(t).lock] = NoThread
  /\ lockOwner' = [lockOwner EXCEPT ![LockStep(t).lock] = t]
  /\ lockThreads' = [lockThreads EXCEPT ![t].pc = LockAdvance(t)]
  /\ UNCHANGED notLock

\* pthread_spin_unlock / end of the scope of the guard
ReleaseLock(t) ==
  /\ lockThreads[t].pc # 0
  /\ LockStep(t).kind = "unlock"
  /\ lockOwner' = [lockOwner EXCEPT ![LockStep(t).lock] = NoThread]
  /\ lockThreads' = [lockThreads EXCEPT ![t].pc = LockAdvance(t)]
  /\ UNCHANGED notLock

\* empty_condition.wait(lock, predicate): the predicate holds and the wait
\* returns with the mutex held, or the thread lets go of the mutex and sleeps
ConditionWait(t) ==
  /\ lockThreads[t].pc # 0
  /\ LockStep(t).kind = "wait"
  /\ ~lockThreads[t].sleeping
  /\ \/ /\ lockThreads' = [lockThreads EXCEPT ![t].pc = LockAdvance(t)]
        /\ UNCHANGED lockOwner
     \/ /\ lockThreads' = [lockThreads EXCEPT ![t].sleeping = TRUE]
        /\ lockOwner' = [lockOwner EXCEPT ![LockStep(t).lock] = NoThread]
  /\ UNCHANGED notLock

\* a notified (or spuriously woken) thread takes the mutex again and
\* evaluates the predicate
ConditionWake(t) ==
  /\ lockThreads[t].pc # 0
  /\ lockThreads[t].sleeping
  /\ lockOwner[LockStep(t).lock] = NoThread
  /\ lockOwner' = [lockOwner EXCEPT ![LockStep(t).lock] = t]
  /\ lockThreads' = [lockThreads EXCEPT ![t].sleeping = FALSE]
  /\ UNCHANGED notLock

NextLocks ==
  \/ \E t \in LockThreads : AcquireLock(t)
  \/ \E t \in LockThreads : ReleaseLock(t)
  \/ \E t \in LockThreads : ConditionWait(t)
  \/ \E t \in LockThreads : ConditionWake(t)

SpecLocks == Init /\ [][NextLocks]_vars

\* ---------------------------------------------------------------------------
\* The caches of a topology are associated with each other, in any order.
\* ---------------------------------------------------------------------------
notCache == <<poolVars, submitters, aborted, schedVars, submitted, queueVars,
              forCVars, mutexVars, lifecycle, lockVars>>

\* this->associate_lower_cache(other)
AssociateLowerCache(this, other) ==
  LET caches == [lower_cache_ |-> lower_cache_, higher_caches_ |-> higher_caches_]
      after == associate_lower_cache(caches, this, other)
  IN  /\ lower_cache_' = after.lower_cache_
      /\ higher_caches_' = after.higher_caches_
      /\ g_lastCall' =
           [this |-> this, other |-> other,
            twice |-> g_lastCall.this = this /\ g_lastCall.other = other,
            lower_cache_ |-> lower_cache_[this],
            higher_caches_ |-> higher_caches_[other]]
      /\ UNCHANGED notCache

NextCaches == \E this \in Caches, other \in Caches : AssociateLowerCache(this, other)

SpecCaches == Init /\ [][NextCaches]_vars

(***************************************************************************)
(* Claims about the pool                                                   *)
(***************************************************************************)
RECURSIVE Occurrences(_, _)
Occurrences(seq, x) ==
  IF seq = <<>> THEN 0
  ELSE (IF Head(seq) = x THEN 1 ELSE 0) + Occurrences(Tail(seq), x)

RECURSIVE ExecCountUpTo(_, _)
ExecCountUpTo(t, n) ==
  IF n = 0 THEN 0 ELSE Occurrences(g_executed[n], t) + ExecCountUpTo(t, n - 1)

\* how many times task t has been executed, over all workers
ExecCount(t) == ExecCountUpTo(t, Len(g_executed))

\* C1: in a running pool every submitted task is eventually executed, never
\* more than once, and a caller that blocks on the lock its task releases
\* eventually goes on.
C1_EveryTaskExecutedOnce ==
  /\ \A t \in Tasks : (submitted >= t) ~> (ExecCount(t) = 1)
  /\ \A t \in Tasks : [](ExecCount(t) <= 1)
  /\ \A s \in MainThread : (submitters[s].pc = "spin_lock") ~> (submitters[s].pc = "idle")

\* all tasks were executed once and the caller, having waited for each of
\* them, took every lock back
C1_Witness ==
  /\ submitted = MaxTasks
  /\ \A t \in Tasks : ExecCount(t) = 1 /\ locks[t] = "locked"
  /\ \A s \in Submitters : submitters[s].pc = "idle" /\ submitters[s].mine = {}

\* C2: when the destructor has returned, every task submitted before the
\* shutdown has been executed and its record released, also the tasks that
\* were still queued when shutdown was requested.
C2_ShutdownRunsPendingTasks ==
  dtor.pc = "dead" =>
    /\ \A t \in 1..submitted : ExecCount(t) = 1
    /\ g_releases = submitted

\* C3: after the destructor has run every availability flag is false and no
\* record is leased.
C3_ShutdownQuiescence ==
  dtor.pc = "dead" =>
    /\ \A w \in Workers : ~threadAvailability[w]
    /\ \A i \in DOMAIN memoryPool : memoryPool[i].available
    /\ g_releases = g_leases

\* the task a worker has popped and not yet executed
InFlight(w) ==
  IF workers[w].pc \in {"unavailable", "execute"}
  THEN <<memoryPool[workers[w].pTask].args>> ELSE <<>>

\* the tasks waiting in queue q, head first
Waiting(q) ==
  [i \in 1..size(cWorkQueues[q]) |-> memoryPool[cWorkQueues[q].m_queue[i]].args]

C5_SpinQueueFifo ==
  spinQueue.m_valid =>
    /\ Len(g_spin_popped) <= Len(g_spin_pushed)
    /\ g_spin_popped = SubSeq(g_spin_pushed, 1, Len(g_spin_popped))
    /\ g_spin_pushed = g_spin_popped \o spinQueue.m_queue
    /\ \A i, j \in DOMAIN g_spin_popped :
         i < j => g_spin_popped[i] # g_spin_popped[j]
    /\ \A i, j \in DOMAIN g_spin_popped :
         (i < j /\ g_spin_popped[i].p = g_spin_popped[j].p)
           => g_spin_popped[i].n < g_spin_popped[j].n
    /\ spin_size(spinQueue) = Len(g_spin_pushed) - Len(g_spin_popped)
    /\ \A t \in Callers :
         (callers[t].pc = "return" /\ callers[t].op \in {"tryPop", "waitPop"}
            /\ callers[t].ret)
           => \E i \in DOMAIN g_spin_popped : g_spin_popped[i] = callers[t].out

\* every value pushed was delivered, values of two producers among them, and
\* a waitPop has just delivered the last one
C5_Witness ==
  /\ Len(g_spin_popped) = MaxPushes
  /\ \E i, j \in DOMAIN g_spin_popped : g_spin_popped[i].p # g_spin_popped[j].p
  /\ \E t \in Callers : /\ callers[t].pc = "return" /\ callers[t].op = "waitPop"
                        /\ callers[t].ret
                        /\ callers[t].out = g_spin_popped[MaxPushes]

(***************************************************************************)
(* Claims about the scheduler                                              *)
(***************************************************************************)
\* accumulated_work + scaled_weight * max_strength / strength of the PU at
\* topology index i, for the history h and the weight w
candidate_cost(h, w, i) ==
  h[i] + ((GRANULARITY * w) * max_pu_strength) \div PU_POWER[i]

\* the PU with the minimum candidate cost, the lowest index among ties
Winner(h, w) ==
  CHOOSE i \in 1..NumPUs :
    \A j \in 1..NumPUs :
      \/ candidate_cost(h, w, i) < candidate_cost(h, w, j)
      \/ candidate_cost(h, w, i) = candidate_cost(h, w, j) /\ i <= j

\* the submission of s has updated the history
Updated(s) ==
  /\ submitters[s].via = "sched"
  /\ submitters[s].pc \in {"round_robin", "getTask", "setFunction", "push",
                           "expandPool", "sched_return"}

\* the submission of s is about to return its value
Returning(s) == submitters[s].pc = "sched_return"

\* C6: for every history and weight (0 included) a submission selects the
\* PU with the minimum accumulated_work + scaled_weight*max_strength/strength,
\* the lowest index among ties, adds exactly that PU's normalized cost to
\* its accumulated_work and leaves the other PUs' accumulated_work unchanged
C6_WinnerIsMinimumAndUpdated ==
  \A s \in Submitters :
    Updated(s) =>
      LET h == submitters[s].g_history
          w == submitters[s].g_weight
      IN  /\ submitters[s].best_hist = Winner(h, w)
          /\ history_ = [h EXCEPT ![Winner(h, w)] = candidate_cost(h, w, Winner(h, w))]

\* a submission of weight 0 and submissions won by each of the PUs
C6_Witness ==
  /\ \E s \in Submitters : Returning(s) /\ submitters[s].best_hist = NumPUs
  /\ \E i \in DOMAIN g_weights : g_weights[i] = 0
  /\ \A i \in DOMAIN history_ : history_[i] > 0

\* C7: the value returned by Scheduler::submitAndDetach is the pu_id of the
\* winner, the PU whose candidate cost was minimal and whose history was
\* incremented
C7_ReturnsWinnerId ==
  \A s \in Submitters :
    Returning(s) =>
      submitters[s].ret = PU_ID[Winner(submitters[s].g_history, submitters[s].g_weight)]

RECURSIVE SumLen(_, _)
SumLen(qs, n) == IF n = 0 THEN 0 ELSE Len(qs[n - 1]) + SumLen(qs, n - 1)

\* C8: each scheduler submission enqueues its task on exactly one worker
\* queue, the one whose index is the winner's topology-order index
C8_QueueOfWinner ==
  \A s \in Submitters :
    Returning(s) =>
      /\ SumLen(g_pushed, NumQueues) = submitted
      /\ submitters[s].g_queue + 1 =
           Winner(submitters[s].g_history, submitters[s].g_weight)

\* C9: with w the chosen PU and p any other PU, w's accumulated_work after
\* the update is at most p's accumulated_work plus the task's cost on p,
\* with equality only for PUs p of a higher topology index than w
C9_BalanceBound ==
  \A s \in Submitters :
    Updated(s) =>
      LET h == submitters[s].g_history
          w == submitters[s].best_hist
      IN  \A p \in (1..NumPUs) \ {w} :
            /\ history_[w] <= candidate_cost(h, submitters[s].g_weight, p)
            /\ history_[w] = candidate_cost(h, submitters[s].g_weight, p) => p > w

\* a submission whose costs on the two PUs are equal
C9_Witness ==
  \E s \in Submitters :
    /\ Updated(s)
    /\ \E p \in (1..NumPUs) \ {submitters[s].best_hist} :
         history_[submitters[s].best_hist] =
           candidate_cost(submitters[s].g_history, submitters[s].g_weight, p)

\* find_best_pu's loop run to its end on the history h by one thread alone
RECURSIVE loop_run(_, _, _)
loop_run(l, h, weight) ==
  IF l.k > NumPUs THEN l ELSE loop_run(loop_step(l, h[l.k], weight), h, weight)

\* the history after one submission of weight w applied alone to h
Applied(h, w) ==
  LET weight == SizeT(GRANULARITY * w)
      best == loop_run(loop_begin, h, weight).best_hist
  IN  [h EXCEPT ![best] = add_work(h[best], weight, best)]

\* the histories that result from applying the submissions in calls (indices
\* of g_weights) to h one at a time, in any order
RECURSIVE Serial(_, _)
Serial(h, calls) ==
  IF calls = {} THEN {h}
  ELSE UNION {Serial(Applied(h, g_weights[c]), calls \ {c}) : c \in calls}

\* C10: with several threads calling Scheduler::submitAndDetach, the history
\* that results equals the result of applying the same submissions one at a
\* time in some order
C10_HistorySerializable ==
  (\A s \in Submitters : submitters[s].pc = "idle")
    => history_ \in Serial([i \in 1..NumPUs |-> 0], DOMAIN g_weights)

\* the candidate cost of some PU does not fit accumulated_work's type
Overflows(h, w) == \E i \in 1..NumPUs : candidate_cost(h, w, i) > SIZE_MAX

\* C11: when adding a task's normalized cost would exceed the range of
\* accumulated_work's type, the scheduler halves every PU's history (their
\* order kept) instead of letting the candidate cost or the accumulator wrap:
\* after the submission every other PU has half its previous history, and the
\* winner at least half of its own
C11_OverflowHalvesHistories ==
  \A s \in Submitters :
    (Updated(s) /\ Overflows(submitters[s].g_history, submitters[s].g_weight)) =>
      LET h == submitters[s].g_history
          b == submitters[s].best_hist
      IN  /\ \A i \in (1..NumPUs) \ {b} : history_[i] = h[i] \div 2
          /\ history_[b] >= h[b] \div 2
          /\ history_[b] <= SIZE_MAX

(***************************************************************************)
(* Claims about the memory pool of task records                            *)
(***************************************************************************)
\* C12: at every instant each task record is either free or leased to
\* exactly one outstanding task: no record is held by two tasks, and a record
\* that is not available is held by a task
C12_AtMostOneLease ==
  \A i \in DOMAIN poolForC.memoryPoolAvailability :
    IF poolForC.memoryPoolAvailability[i]
    THEN g_forC.holders[i] = {}
    ELSE Cardinality(g_forC.holders[i]) = 1

\* C13: the number of records ever allocated is at most the largest number
\* of tasks that were outstanding (leased and not yet released) at once
C13_RecordReuse == Len(poolForC.memoryPool) <= g_forC.peak

(***************************************************************************)
(* Claims about the queues used on their own                               *)
(***************************************************************************)
\* C14: a waitPop that returns true found the queue valid and not empty, took
\* its head value off the queue and wrote it to out; a waitPop that returns
\* false found the queue invalidated and took nothing.  So it never returns
\* while the queue is valid and empty.
C14_WaitPopResult ==
  \A t \in Callers :
    LET c == mutexCallers[t] IN
    (c.pc = "return" /\ c.op = "waitPop") =>
      IF c.ret
      THEN /\ c.g_valid
           /\ c.g_queue # <<>>
           /\ c.out = Head(c.g_queue)
           /\ c.g_after = Tail(c.g_queue)
      ELSE /\ ~c.g_valid
           /\ c.g_after = c.g_queue

\* a waitPop has returned true with a value while another value stayed queued
C14_Witness ==
  \E t \in Callers :
    /\ mutexCallers[t].pc = "return"
    /\ mutexCallers[t].op = "waitPop"
    /\ mutexCallers[t].ret
    /\ mutexCallers[t].out # 0
    /\ Len(mutexCallers[t].g_queue) > 1

MutexBlocked(t) ==
  /\ mutexCallers[t].op \in {"waitPop", "waitPush"}
  /\ mutexCallers[t].pc \notin {"idle", "return"}

SpinBlocked(t) ==
  /\ callers[t].op \in {"waitPop", "waitPush"}
  /\ callers[t].pc \notin {"idle", "return"}

\* C15: for each kind of queue, a thread that is inside waitPop or waitPush
\* once the queue has been invalidated eventually returns false
C15_InvalidateWakesWaiters ==
  \A t \in Callers :
    /\ (MutexBlocked(t) /\ ~mutexQueue.m_valid)
         ~> (mutexCallers[t].pc = "return" /\ ~mutexCallers[t].ret)
    /\ (SpinBlocked(t) /\ ~spinQueue.m_valid)
         ~> (callers[t].pc = "return" /\ ~callers[t].ret)

\* the invalidate() that made the condition-variable queue invalid has
\* returned and two threads it woke from waitPop are taking the mutex again
C15_Witness ==
  \E t, u, i \in Callers :
    /\ t # u
    /\ mutexQueue.kind = "condition"
    /\ ~mutexQueue.m_valid
    /\ mutexCallers[i].pc = "return"
    /\ mutexCallers[i].op = "invalidate"
    /\ mutexCallers[i].g_valid
    /\ mutexCallers[t].op = "waitPop" /\ mutexCallers[t].pc = "lock"
    /\ mutexCallers[u].op = "waitPop" /\ mutexCallers[u].pc = "lock"

\* C16: the values pushed and not yet delivered stay in the queue in the
\* order of the pushes, a tryPop returns false only on an empty queue, also
\* after invalidate(), and a waitPop returns false only on an invalidated
\* and empty queue
C16_NoValueLostAcrossInvalidate ==
  /\ g_mutex.pushed = g_mutex.popped \o mutexQueue.m_queue
  /\ \A t \in Callers :
       LET c == mutexCallers[t] IN
       (c.pc = "return" /\ ~c.ret) =>
         /\ c.op = "tryPop" => c.g_queue = <<>>
         /\ c.op = "waitPop" => (~c.g_valid /\ c.g_queue = <<>>)

(***************************************************************************)
(* Claims about the shutdown of the pool                                   *)
(***************************************************************************)
\* a worker that has left the loop of workerFunction
LeftLoop(w) == workers[w].pc \in {"return", "finished"}

\* a worker that holds a task it took from its queue
Executing(w) == workers[w].pc \in {"unavailable", "execute", "release"}

\* C17: when waitAllThreadsToBeUnavailable has returned, every worker has
\* left its dispatch loop and no task is executing
C17_DrainedBeforeJoin ==
  dtor.pc \in {"join", "dead"} =>
    \A w \in Workers : LeftLoop(w) /\ ~Executing(w)

\* C18: once the destructor is entered, every worker leaves its loop, the
\* wait on the flags ends, the threads are joined and the destructor returns
C18_ShutdownTerminates ==
  (dtor.pc # "alive") ~>
    (dtor.pc = "dead" /\ \A w \in Workers : workers[w].pc = "finished")

\* the destructor has returned on a pool that never got a task
C18_Witness ==
  /\ dtor.pc = "dead"
  /\ submitted = 0
  /\ \A w \in Workers : workers[w].pc = "finished" /\ g_executed[w] = <<>>

RECURSIVE IsPrefix(_, _)
IsPrefix(a, b) ==
  IF a = <<>> THEN TRUE
  ELSE IF b = <<>> THEN FALSE
  ELSE Head(a) = Head(b) /\ IsPrefix(Tail(a), Tail(b))

\* C19: no callback runs before the pool is destroyed, the callbacks run in
\* the order in which they were registered, and once the pool is destructed
\* each registered callback (the one given to the constructor and the
\* appended ones) has run exactly once
C19_CallbacksOnceInOrder ==
  /\ (lifecycle.destroys = 0 /\ lifecycle.todo = <<>>) => lifecycle.g_ran = <<>>
  /\ IsPrefix(lifecycle.g_ran, lifecycle.g_registered)
  /\ lifecycle.pc = "dead" => lifecycle.g_ran = lifecycle.g_registered

\* C20: no availability flag is deleted twice, no callback runs twice, the
\* process does not end abnormally, and a destroy() after the first leaves
\* the pool as the first left it
C20_DestroyIdempotent ==
  /\ \A i \in DOMAIN lifecycle.deleted : lifecycle.deleted[i] <= 1
  /\ \A i, j \in DOMAIN lifecycle.g_ran :
       lifecycle.g_ran[i] = lifecycle.g_ran[j] => i = j
  /\ lifecycle.pc # "crashed"
  /\ (lifecycle.destroys > 1 /\ lifecycle.todo = <<>>) =>
       lifecycle.g_first = <<PoolState(lifecycle)>>

(***************************************************************************)
(* Claims about the workers of the pool                                    *)
(***************************************************************************)
\* a worker that has fetched its queue and can pop from it
Consumes(w) ==
  workers[w].pc \in {"loop", "available", "waitPop", "unavailable", "execute",
                     "release"}

\* C21: no two worker threads pop from the same queue, also after an
\* extendible pool has spawned workers
C21_OneConsumerPerQueue ==
  \A v, w \in Workers :
    (v # w /\ Consumes(v) /\ Consumes(w)) => WorkerQueue(v) # WorkerQueue(w)

C23_SubmitReturnsBeforeExecution ==
  \A s \in Submitters, w \in Workers :
    (submitters[s].pc # "idle" /\ submitters[s].args # NoTask) =>
      Occurrences(g_executed[w], submitters[s].args) = 0

(***************************************************************************)
(* More claims about the scheduler                                         *)
(***************************************************************************)
Max(a, b) == IF a >= b THEN a ELSE b
Abs(a) == IF a >= 0 THEN a ELSE 0 - a

\* C25: on the two PUs of strengths 100000 and 70000, after every one of any
\* number of submissions of one and the same weight, the two accumulated_work
\* differ by at most the larger of the costs of one task on the two PUs
C25_BoundedImbalance ==
  \A s \in Submitters :
    (Updated(s) /\ \A i \in DOMAIN g_weights : g_weights[i] = EqualWeight) =>
      Abs(history_[1] - history_[2]) <=
        Max(normalized(SizeT(GRANULARITY * EqualWeight), 1),
            normalized(SizeT(GRANULARITY * EqualWeight), 2))

NoOverflow ==
  \A i \in 1..NumPUs : \A w \in Weights :
    history_[i] + normalized(SizeT(GRANULARITY * w), i) <= SIZE_MAX

\* C27: as long as no overflow occurs, no step of a submission decreases the
\* accumulated_work of any PU
C27_HistoryMonotone ==
  [][NoOverflow => \A i \in 1..NumPUs : history_'[i] >= history_[i]]_vars

(***************************************************************************)
(* Claims about the order of the locks                                     *)
(***************************************************************************)
\* the nestings that the order scheduler lock, task-pool lock, queue lock
\* forbids: <<class of a lock held, class of the lock asked for>>
ForbiddenNesting ==
  {<<"queue", "scheduler">>, <<"queue", "task-pool">>, <<"task-pool", "scheduler">>}

LockBlocked(t) == \E l \in Requested(t) : lockOwner[l] # NoThread

\* C24: no thread asks for the scheduler lock or a task-pool lock while it
\* holds a queue lock, nor for the scheduler lock while it holds a task-pool
\* lock, and no set of threads waits in a cycle, each for a lock that a
\* thread of the set holds.
C24_LockOrdering ==
  /\ \A t \in LockThreads : \A h \in HeldBy(t) : \A l \in Requested(t) :
       <<LockClass(h), LockClass(l)>> \notin ForbiddenNesting
  /\ \A S \in SUBSET LockThreads :
       S # {} => \E t \in S : ~(LockBlocked(t) /\ \A l \in Requested(t) : lockOwner[l] \in S)

\* the submitter holds cWorkQueuesLock and asks for the mutex of the queue,
\* which a worker holds inside waitPop, while the worker of the other pool
\* asks for memoryPoolLock, which its submitter holds
C24_Witness ==
  /\ lockOwner["cWorkQueuesLock"] = "submitter"
  /\ Requested("submitter") = {"cWorkQueues.m_mutex"}
  /\ lockOwner["cWorkQueues.m_mutex"] = "worker"
  /\ lockOwner["memoryPoolLock"] = "forCSubmitter"
  /\ Requested("forCWorker") = {"memoryPoolLock"}

(***************************************************************************)
(* More claims about the queues                                            *)
(***************************************************************************)
\* C28: an invalidate of a queue that has been invalidated leaves the
\* validity flag, the contents and the other threads (the blocked ones among
\* them) as they are, and no step makes an invalid queue valid again
C28_InvalidateIdempotent ==
  [][
      /\ \A t \in Callers :
           (mutexCallers[t].pc = "invalidate" /\ mutexCallers'[t].pc = "return"
              /\ ~mutexQueue.m_valid) =>
             /\ mutexQueue'.m_valid = mutexQueue.m_valid
             /\ mutexQueue'.m_queue = mutexQueue.m_queue
             /\ \A u \in Callers \ {t} : mutexCallers'[u] = mutexCallers[u]
      /\ \A t \in Callers :
           (callers[t].pc = "invalidate" /\ callers'[t].pc = "return"
              /\ ~spinQueue.m_valid) =>
             /\ spinQueue'.m_valid = spinQueue.m_valid
             /\ spinQueue'.m_queue = spinQueue.m_queue
             /\ \A u \in Callers \ {t} : callers'[u] = callers[u]
      /\ (~mutexQueue.m_valid) => ~mutexQueue'.m_valid
      /\ (~spinQueue.m_valid) => ~spinQueue'.m_valid
    ]_vars

\* an invalidate has found the queue invalidated and has returned, with
\* values still in the queue
C28_Witness ==
  \/ \E t \in Callers :
       /\ mutexCallers[t].op = "invalidate" /\ mutexCallers[t].pc = "return"
       /\ ~mutexCallers[t].g_valid
       /\ mutexQueue.m_queue # <<>>
  \/ \E t \in Callers :
       /\ callers[t].op = "invalidate" /\ callers[t].pc = "invalidate"
       /\ ~spinQueue.m_valid
       /\ spinQueue.m_queue # <<>>

(***************************************************************************)
(* Claims about the caches                                                 *)
(***************************************************************************)
\* C29: a call c.associate_lower_cache(x) that follows a call with the same
\* c and x leaves the lower cache of c and the higher caches of x as the
\* first call left them: c is not added a second time
C29_AssociateIdempotent ==
  g_lastCall.twice =>
    /\ lower_cache_[g_lastCall.this] = g_lastCall.lower_cache_
    /\ higher_caches_[g_lastCall.other] = g_lastCall.higher_caches_

\* the same call has been made twice in a row, on a cache x that has another
\* higher cache as well
C29_Witness ==
  /\ g_lastCall.twice
  /\ g_lastCall.this # g_lastCall.other
  /\ Len(higher_caches_[g_lastCall.other]) >= 2

\* C30: after any sequence of calls, c is in the higher caches of x if and
\* only if the lower cache of c is x
C30_HigherIsInverseOfLower ==
  \A c \in Caches, x \in Caches :
    (\E i \in DOMAIN higher_caches_[x] : higher_caches_[x][i] = c) <=> lower_cache_[c] = x

\* the cache reached from c by n lower-cache links, nullptr past the last one
RECURSIVE LowerAfter(_, _)
LowerAfter(c, n) ==
  IF n = 0 \/ c = nullptr THEN c ELSE LowerAfter(lower_cache_[c], n - 1)

\* C31: after any sequence of calls no cache is its own lower cache, and no
\* cache is reached from itself by following lower-cache links
C31_LowerCachesAcyclic ==
  \A c \in Caches : \A n \in 1..NumCaches : LowerAfter(c, n) # c

(***************************************************************************)
(* More claims about the pool                                              *)
(***************************************************************************)
\* the argument of the n-th record of queue q from its head: the pushes on q
\* that are still queued are the last ones
QueuedArgs(q, n) ==
  g_pushed[q][Len(g_pushed[q]) - Len(cWorkQueues[q].m_queue) + n]

\* C32: a record that can be popped holds the function and argument of the
\* submission that pushed it, and the task a worker executes runs on the
\* function and argument of that submission, also for a record used before
\* and with other submissions and completions going on
C32_RecordInitializedBeforePoppable ==
  /\ \A q \in DOMAIN cWorkQueues : \A n \in 1..Len(cWorkQueues[q].m_queue) :
       memoryPool[cWorkQueues[q].m_queue[n]].args = QueuedArgs(q, n)
  /\ \A w \in Workers :
       workers[w].pc \in {"unavailable", "execute"} =>
         memoryPool[workers[w].pTask].args =
           g_pushed[WorkerQueue(w)][Len(g_executed[w]) + 1]

\* a worker is about to execute a task on a record that has been used and
\* released before, while another thread is inside submitAndDetach and a
\* record is queued
C32_Witness ==
  /\ g_releases >= 1
  /\ \E w \in Workers :
       /\ workers[w].pc = "execute"
       /\ memoryPool[workers[w].pTask].args > Len(memoryPool)
  /\ \E s \in Submitters : submitters[s].pc \in {"setFunction", "push"}

\* the availability flags that are set, and the tasks in all the queues
IdleFlags == Cardinality({i \in DOMAIN threadAvailability : threadAvailability[i]})

RECURSIVE QueuedTasks(_)
QueuedTasks(n) ==
  IF n = 0 THEN 0 ELSE Len(cWorkQueues[n - 1].m_queue) + QueuedTasks(n - 1)

InExecute == {w \in Workers : workers[w].pc = "execute"}

\* C34: a worker that is executing a task has its availability flag false,
\* so the idle count is at most the number of workers that are not executing
C34_ExecutingIsNotIdle ==
  /\ \A w \in InExecute : ~threadAvailability[w]
  /\ numberOfIdleThreads <= Len(workers) - Cardinality(InExecute)

\* one worker executes a task while another one waits idle: the idle count
\* is one
C34_Witness ==
  /\ InExecute # {}
  /\ numberOfIdleThreads = 1
  /\ \E w \in Workers : workers[w].pc = "waitPop" /\ threadAvailability[w]

\* what a tryPop of thread c on queue q must leave: c2 and q2 are the thread
\* and the queue after the step
TryPopStep(c, q, c2, q2) ==
  /\ c2.pc = "return"
  /\ IF q.m_queue = <<>> \/ ~q.m_valid
     THEN ~c2.ret /\ c2.out = c.out /\ q2.m_queue = q.m_queue
     ELSE c2.ret /\ c2.out = Head(q.m_queue) /\ q2.m_queue = Tail(q.m_queue)

\* C35: tryPop does not wait: the step it takes with the lock held returns;
\* on an empty or invalidated queue it returns false and leaves the contents
\* and out as they were, otherwise it removes the head, writes it to out and
\* returns true
C35_TryPopNeverBlocks ==
  [][
     /\ \A t \in Callers :
          (mutexCallers[t].pc = "tryPop" /\ mutexCallers'[t] # mutexCallers[t]) =>
             TryPopStep(mutexCallers[t], mutexQueue, mutexCallers'[t], mutexQueue')
     /\ \A t \in Callers :
          (callers[t].pc = "tryPop" /\ callers'[t] # callers[t]) =>
             TryPopStep(callers[t], spinQueue, callers'[t], spinQueue')
    ]_vars

\* a tryPop has returned false on a spin-lock queue that was invalidated
\* with a value in it, after an earlier pop had returned a value
C35_Witness ==
  /\ \E t \in Callers : /\ callers[t].pc = "return"
                        /\ callers[t].op = "tryPop"
                        /\ ~callers[t].ret
                        /\ callers[t].out = NoValue
  /\ spinQueue.m_queue # <<>>
  /\ ~spinQueue.m_valid
  /\ g_spin_popped # <<>>

\* the workers of the ThreadPoolForC that hold a record they popped
ForCHolding == {w \in DOMAIN forCWorkers : forCWorkers[w].pc \in {"execute", "release"}}

\* C36: the assertions of the ThreadPoolForC worker hold whenever it
\* releases a record: the record's id is inside the memory pool, the record
\* is marked not available and is leased to a task, no other worker holds
\* the same record, and no assertion has failed
C36_ReleaseAssertionsHold ==
  /\ ~aborted
  /\ \A w \in ForCHolding :
       /\ forCWorkers[w].pTask \in 1..Len(poolForC.memoryPool)
       /\ ~poolForC.memoryPoolAvailability[forCWorkers[w].pTask]
       /\ g_forC.holders[forCWorkers[w].pTask] # {}
       /\ \A v \in ForCHolding \ {w} : forCWorkers[v].pTask # forCWorkers[w].pTask

\* a worker is about to release a record that was released before and
\* leased again, while another record is free
C36_Witness ==
  /\ \E w \in DOMAIN forCWorkers :
       /\ forCWorkers[w].pc = "release"
       /\ poolForC.memoryPool[forCWorkers[w].pTask] > Len(poolForC.memoryPool)
  /\ \E i \in DOMAIN poolForC.memoryPoolAvailability : poolForC.memoryPoolAvailability[i]

\* C37: a worker whose waitPop returned false finds m_done set, which stays
\* set, and the next step of a worker that tests m_done when it is set
\* leaves the loop: it calls waitPop no more and executes nothing
C37_FalseWaitPopEndsLoop ==
  [][
     /\ m_done => m_done'
     /\ \A w \in Workers :
          /\ (workers[w].pc = "waitPop" /\ workers'[w].pc = "loop") => m_done
          /\ (workers[w].pc = "loop" /\ m_done /\ workers'[w] # workers[w]) =>
               (workers'[w].pc = "return" /\ g_executed'[w] = g_executed[w])
          /\ (workers[w].pc = "return" /\ workers'[w] # workers[w]) =>
               workers'[w].pc = "finished"
    ]_vars

\* a worker that has executed a task is back at the test of m_done after a
\* waitPop on its invalidated queue returned false: its flag is still set
C37_Witness ==
  \E w \in Workers :
    /\ workers[w].pc = "loop"
    /\ threadAvailability[w]
    /\ ~cWorkQueues[WorkerQueue(w)].m_valid
    /\ g_executed[w] # <<>>

\* C38: every worker that fetches its queue, also one that expandPool has
\* started, uses an index below the number of queues, whatever numThreads
\* (at least 1) the pool was constructed with
C38_QueueIndexInRange ==
  \A w \in Workers :
    workers[w].pc = "fetchQueue" => workers[w].thread < Cardinality(DOMAIN cWorkQueues)

\* C39: the index (ret - 20) / 2 that find_best_pu uses on trueHistory for
\* the id ret it returns is below the number of PUs of the Architecture
C39_TrueHistoryIndexValid ==
  \A s \in Submitters :
    submitters[s].ret # 0 => (submitters[s].ret - FIRST_CPU) \div 2 < NumPUs

\* the values in a sequence
Values(seq) == {seq[i] : i \in DOMAIN seq}

\* C40: when every insertion is a waitPush with the same maxSize, the queue
\* never holds more than maxSize values, and a waitPush that returned false
\* left the queue as it was and its value is in no queue
C40_BoundedInsertion ==
  /\ Len(mutexQueue.m_queue) <= MaxSize
  /\ Len(spinQueue.m_queue) <= MaxSize
  /\ \A t \in Callers :
       (mutexCallers[t].pc = "return" /\ mutexCallers[t].op = "waitPush"
          /\ ~mutexCallers[t].ret) =>
         /\ mutexCallers[t].g_after = mutexCallers[t].g_queue
         /\ mutexCallers[t].value \notin Values(g_mutex.pushed)
  /\ \A t \in Callers :
       (callers[t].pc = "return" /\ callers[t].op = "waitPush" /\ ~callers[t].ret) =>
         callers[t].value \notin Values(g_spin_pushed)

\* a waitPush has returned false on an invalidated queue that is full, while
\* another producer is inside waitPush
C40_Witness ==
  /\ \E t \in Callers : /\ mutexCallers[t].pc = "return"
                        /\ mutexCallers[t].op = "waitPush"
                        /\ ~mutexCallers[t].ret
  /\ \E t \in Callers : /\ mutexCallers[t].pc # "return"
                        /\ mutexCallers[t].op = "waitPush"
  /\ Len(mutexQueue.m_queue) = MaxSize
  /\ ~mutexQueue.m_valid

====
